---- MODULE Spec2Model ----
(***************************************************************************)
(* The DRM/KMS backend of minui (src/minui/graphics_drm.cpp) as a state    *)
(* machine: one MinuiBackendDrm object, the kernel objects it talks to,    *)
(* and the calls Init, Flip, Blank and the destructor.                     *)
(***************************************************************************)
EXTENDS Integers, Sequences, FiniteSets, TLC

\* ------------------------------------------------------------------ bounds
\* Widest CRTC mode (hdisplay) the kernel reports in the model.
MaxWidth == 4
\* Number of Flip calls counted after Init (the count is what C1 is about).
MaxFlips == 4
\* Device nodes scanned by Init (DRM_MAX_MINOR of libdrm, cut down).
NumMinors == 2
\* Connectors of the selected device.
MaxConnectors == 2
\* Lines of the text of a topology blob.
MaxLines == 3
\* Encoders of a device.
MaxEncoders == 2
\* Entries of a directory besides "." and "..".
MaxEntries == 3
\* Keys pressed while browsing.
MaxKeys == 2
\* Polls of InstallWithFuseFromPath for the package file.
SDCARD_INSTALL_TIMEOUT == 10
\* Surfaces created when the surface methods are called on their own.
MaxSurfaces == 2

\* --------------------------------------------------------- program constants
\* enum value compared with the plane index in AtomicPopulatePlane.
Left == 0
\* Initial value of number_of_lms in Init.
DEFAULT_NUM_LMS == 2

\* ------------------------------------------------------------ kernel objects
\* Kernel object ids are unique over all object kinds.
ConnectorIds == 21..(20 + MaxConnectors)
CrtcIds == {31, 32}
PlaneIdOf(i) == 41 + i
PlaneIndexOf(id) == id - 41
BlobIds == {61}
Widths == 1..MaxWidth
Heights == {3}

\* A property table entry as drmModeGetProperty caches it.
Prop(name, id) == [name |-> name, prop_id |-> id]

\* The property tables a kernel driver may expose for a plane: the complete
\* one, and two with a property missing (driver variance).
PlanePropsFull ==
  << Prop("FB_ID", 1), Prop("CRTC_ID", 2), Prop("SRC_X", 3), Prop("SRC_Y", 4),
     Prop("SRC_W", 5), Prop("SRC_H", 6), Prop("CRTC_X", 7), Prop("CRTC_Y", 8),
     Prop("CRTC_W", 9), Prop("CRTC_H", 10) >>
PlanePropsNoSrcW == SelectSeq(PlanePropsFull, LAMBDA p : p.name # "SRC_W")
PlanePropsNoFb == SelectSeq(PlanePropsFull, LAMBDA p : p.name # "FB_ID")
PlanePropTables == {PlanePropsFull, PlanePropsNoSrcW, PlanePropsNoFb}
CrtcProps == << Prop("MODE_ID", 11), Prop("ACTIVE", 12) >>
ConnProps == << Prop("CRTC_ID", 13), Prop("mode_properties", 14) >>
\* The name the kernel knows a property id by ("" for an id it does not know).
KernelPropName(id) ==
  LET all == PlanePropsFull \o CrtcProps \o ConnProps
      hit == {i \in 1..Len(all) : all[i].prop_id = id}
  IN  IF hit = {} THEN "" ELSE all[CHOOSE i \in hit : TRUE].name

NullCrtc == [crtc_id |-> 0, hdisplay |-> 0, vdisplay |-> 0]
NullSurface == [sid |-> 0, handle |-> 0, fb_id |-> 0, data |-> "null",
                width |-> 0, height |-> 0, row_bytes |-> 0]
NullPlane == [plane_id |-> 0, props |-> FALSE, props_info |-> << >>]
NullRes == [props |-> FALSE, props_info |-> << >>, mode_blob_id |-> 0]

\* ------------------------------------------------------------------- state
VARIABLES
  pc,                     \* "new", "ready" (Init returned a surface),
                          \* "failed" (Init returned null), "dead", "crashed"
  current_blank_state,    \* TRUE: Blanked, FALSE: Active
  current_buffer,
  GRSurfaceDrms,          \* <<surface, surface>>, index 1 is GRSurfaceDrms[0]
  drm_fd,
  main_monitor_crtc,
  main_monitor_connector,
  number_of_lms,
  fb_prop_id,
  crtc_res,
  conn_res,
  plane_res,              \* sequence of Plane, index i+1 is plane_res[i]
  kernel,                 \* the kernel's side: fds, buffers, display state
  ret,                    \* sid of the surface last returned to the caller
  nflips,                 \* Flip calls since Init
  install,                \* InstallWithFuseFromPath: its locals, its
                          \* position, the fuse child and what it did
  last                    \* what the last call did (requests, commits)

vars == << pc, current_blank_state, current_buffer, GRSurfaceDrms, drm_fd,
           main_monitor_crtc, main_monitor_connector, number_of_lms,
           fb_prop_id, crtc_res, conn_res, plane_res, kernel, ret, nflips,
           install, last >>

\* The backend object and the kernel as one record, so that a method is a
\* function from a record to a record and methods can call each other.
Now ==
  [ current_blank_state |-> current_blank_state,
    current_buffer |-> current_buffer,
    GRSurfaceDrms |-> GRSurfaceDrms,
    drm_fd |-> drm_fd,
    main_monitor_crtc |-> main_monitor_crtc,
    main_monitor_connector |-> main_monitor_connector,
    number_of_lms |-> number_of_lms,
    fb_prop_id |-> fb_prop_id,
    crtc_res |-> crtc_res,
    conn_res |-> conn_res,
    plane_res |-> plane_res,
    kernel |-> kernel ]

\* The object and the kernel when a call starts.
Calling == [Now EXCEPT !.kernel.log = << >>]

Becomes(s) ==
  /\ current_blank_state' = s.current_blank_state
  /\ current_buffer' = s.current_buffer
  /\ GRSurfaceDrms' = s.GRSurfaceDrms
  /\ drm_fd' = s.drm_fd
  /\ main_monitor_crtc' = s.main_monitor_crtc
  /\ main_monitor_connector' = s.main_monitor_connector
  /\ number_of_lms' = s.number_of_lms
  /\ fb_prop_id' = s.fb_prop_id
  /\ crtc_res' = s.crtc_res
  /\ conn_res' = s.conn_res
  /\ plane_res' = s.plane_res
  /\ kernel' = s.kernel
  /\ install' = install

\* The kernel before the process has opened anything.  active: the CRTCs
\* scanning out; plane_fb: the fb id bound to each plane (0: none);
\* opened, closes: the fds the process opened, and every close() it made,
\* in order; created, deleted: the GRSurfaceDrm objects made with new, and
\* every delete, in order; handles, fbs, maps, blobs: the live dumb-buffer
\* handles, framebuffers, mappings and property blobs; nodes: the device
\* nodes of the system, in minor order; log: the kernel calls of the call
\* in progress (or of the last one), in order.
Kernel0 ==
  [ active |-> {},
    plane_fb |-> [i \in 0..1 |-> 0],
    opened |-> {},
    closes |-> << >>,
    created |-> {},
    deleted |-> << >>,
    handles |-> {},
    fbs |-> {},
    maps |-> {},
    blobs |-> {},
    nodes |-> << >>,
    log |-> << >> ]

\* ---------------------------------------------------------- atomic requests
\* A request under construction: the property writes added so far, and how
\* many drmModeAtomicAddProperty calls were made on it.
EmptyReq == [writes |-> << >>, calls |-> 0]

PropWrite(obj, prop_id, val) == [obj |-> obj, prop_id |-> prop_id, val |-> val]

\* drmModeAtomicAddProperty(req, obj, prop_id, val).  The kernel library may
\* refuse one call (out of memory): call number addfail, 0 for none.  rc < 0
\* is the failure, rc > 0 the new number of items.
drmModeAtomicAddProperty(req, obj, prop_id, val, addfail) ==
  IF req.calls + 1 = addfail
  THEN [req |-> [req EXCEPT !.calls = @ + 1], rc |-> -1]
  ELSE [req |-> [writes |-> Append(req.writes, PropWrite(obj, prop_id, val)),
                 calls |-> req.calls + 1],
        rc |-> Len(req.writes) + 1]

SetMin(S) == CHOOSE x \in S : \A y \in S : x <= y

\* The macro find_prop_id for the CRTC and the connector: main_id is
\* main_monitor_<type>-><type>_id, res the cached table (crtc_res/conn_res).
find_prop_id(res, main_id, obj_id, prop_name) ==
  IF main_id # obj_id
  THEN 0
  ELSE LET hit == {j \in 1..Len(res.props_info) :
                     res.props_info[j].name = prop_name}
       IN  IF hit = {} THEN 0 ELSE res.props_info[SetMin(hit)].prop_id

\* The macro add_prop: look the property up and add the write when it is
\* found; the result of the add is not looked at.
add_prop(req, res, main_id, id, id_name, id_val, addfail) ==
  LET prop_id == find_prop_id(res, main_id, id, id_name)
  IN  IF prop_id # 0
      THEN drmModeAtomicAddProperty(req, id, prop_id, id_val, addfail).req
      ELSE req

\* The plane_res entry find_plane_prop_id stops at for obj_id (0: none).
PlaneSlot(planes, obj_id) ==
  LET hit == {i \in 1..Len(planes) : planes[i].plane_id = obj_id}
  IN  IF hit = {} THEN 0 ELSE SetMin(hit)

find_plane_prop_id(obj_id, prop_name, planes) ==
  LET i == PlaneSlot(planes, obj_id)
      hit == IF i = 0 THEN {}
             ELSE {j \in 1..Len(planes[i].props_info) :
                     planes[i].props_info[j].name = prop_name}
  IN  IF hit = {} THEN 0 ELSE planes[i].props_info[SetMin(hit)].prop_id

\* find_plane_prop_id reads obj->props->count_props of the matching plane:
\* a null dereference when Init could not fetch that plane's properties.
PlanePropsNull(planes, obj_id) ==
  LET i == PlaneSlot(planes, obj_id)
  IN  i # 0 /\ ~planes[i].props

\* Result of a construction step: the request, rc (0 or a negative errno)
\* and whether the step dereferenced a null pointer.
Step(req, rc, crash) == [req |-> req, rc |-> rc, crash |-> crash]
EINVAL == 22

\* `if (drmModeAtomicAddProperty(...) < 0) return -EINVAL;` on the result
\* added of the call.
AddOrEinval(added) ==
  Step(added.req, IF added.rc < 0 THEN 0 - EINVAL ELSE 0, FALSE)

atomic_add_prop_to_plane(planes, req, obj_id, prop_name, value, addfail) ==
  IF PlanePropsNull(planes, obj_id)
  THEN Step(req, 0 - EINVAL, TRUE)
  ELSE LET prop_id == find_plane_prop_id(obj_id, prop_name, planes)
       IN  IF prop_id = 0
           THEN Step(req, 0 - EINVAL, FALSE)
           ELSE AddOrEinval(drmModeAtomicAddProperty(req, obj_id, prop_id,
                                                     value, addfail))

\* ------------------------------------------------------ pipeline requests
\* x << 16 on a uint32_t: the low 16 bits of x move up, the rest fall off.
Shl16(x) == (x % 65536) * 65536

\* Adds the (name, value) pairs of props to plane obj_id in order, stopping
\* at the first one that fails: the chain of `if (atomic_add_prop_to_plane)
\* return -EINVAL` statements.  step is the result so far.
RECURSIVE AddPlaneProps(_, _, _, _, _)
AddPlaneProps(planes, step, obj_id, props, addfail) ==
  IF step.rc # 0 \/ props = << >>
  THEN step
  ELSE AddPlaneProps(planes,
         atomic_add_prop_to_plane(planes, step.req, obj_id, props[1][1],
                                  props[1][2], addfail),
         obj_id, Tail(props), addfail)

\* The X offset AtomicPopulatePlane gives a plane: 0 for the plane Left and
\* width/number_of_lms for any other.
PlaneOffsetAllZero(plane, width, lms) == 0
PlaneOffset(plane, width, lms) ==
  IF plane = Left THEN 0 ELSE width \div lms

AtomicPopulatePlane(s, plane, req, addfail) ==
  LET width == s.main_monitor_crtc.hdisplay
      height == s.main_monitor_crtc.vdisplay
      src_y == 0
      src_w == width \div s.number_of_lms
      src_h == height
      crtc_y == 0
      crtc_w == width \div s.number_of_lms
      crtc_h == height
      src_x == PlaneOffset(plane, width, s.number_of_lms)
      crtc_x == PlaneOffset(plane, width, s.number_of_lms)
      plane_id == s.plane_res[plane + 1].plane_id
  IN  AddPlaneProps(s.plane_res, Step(req, 0, FALSE), plane_id,
        << <<"FB_ID", s.GRSurfaceDrms[s.current_buffer + 1].fb_id>>,
           <<"SRC_X", Shl16(src_x)>>, <<"SRC_Y", Shl16(src_y)>>,
           <<"SRC_W", Shl16(src_w)>>, <<"SRC_H", Shl16(src_h)>>,
           <<"CRTC_X", crtc_x>>, <<"CRTC_Y", crtc_y>>,
           <<"CRTC_W", crtc_w>>, <<"CRTC_H", crtc_h>>,
           <<"CRTC_ID", s.main_monitor_crtc.crtc_id>> >>,
        addfail)

\* One iteration of the loop of TeardownPipeline, after its first statement
\* gave a: return when a failed, else clear the plane's framebuffer.
TeardownPlane(s, plane_id, a, addfail) ==
  IF a.rc < 0 THEN a
  ELSE AddOrEinval(drmModeAtomicAddProperty(a.req, plane_id, s.fb_prop_id, 0,
                                            addfail))

\* The loop `for (i = 0; i < number_of_lms; i++)` of TeardownPipeline, from
\* plane i on; step is the result so far.
RECURSIVE TeardownPlanes(_, _, _, _)
TeardownPlanes(s, i, step, addfail) ==
  IF step.rc < 0 \/ i >= s.number_of_lms
  THEN step
  ELSE TeardownPlanes(s, i + 1,
         TeardownPlane(s, s.plane_res[i + 1].plane_id,
           atomic_add_prop_to_plane(s.plane_res, step.req,
                                    s.plane_res[i + 1].plane_id, "CRTC_ID", 0,
                                    addfail),
           addfail),
         addfail)

\* TeardownPipeline reads main_monitor_connector->connector_id,
\* main_monitor_crtc->crtc_id and the props of conn_res and crtc_res before
\* anything else: null (or never set) when Init did not get that far.
PipelineDerefsNull(s) ==
  \/ s.main_monitor_connector = 0
  \/ s.main_monitor_crtc = NullCrtc
  \/ ~s.conn_res.props
  \/ ~s.crtc_res.props
  \/ Len(s.plane_res) < s.number_of_lms

TeardownPipeline(s, req, addfail) ==
  IF PipelineDerefsNull(s)
  THEN Step(req, 0 - EINVAL, TRUE)
  ELSE LET conn == s.main_monitor_connector
           crtc == s.main_monitor_crtc.crtc_id
           r1 == add_prop(req, s.conn_res, conn, conn, "CRTC_ID", 0, addfail)
           r2 == add_prop(r1, s.crtc_res, crtc, crtc, "MODE_ID", 0, addfail)
           r3 == add_prop(r2, s.crtc_res, crtc, crtc, "ACTIVE", 0, addfail)
       IN  TeardownPlanes(s, 0, Step(r3, 0, FALSE), addfail)

DrmDisableCrtc(s, req, addfail) == TeardownPipeline(s, req, addfail)

\* The first loop of SetupPipeline, from iteration i on: the three add_prop
\* of the connector and the CRTC, once per layer mixer.
RECURSIVE SetupCrtc(_, _, _, _)
SetupCrtc(s, i, req, addfail) ==
  IF i >= s.number_of_lms
  THEN req
  ELSE LET conn == s.main_monitor_connector
           crtc == s.main_monitor_crtc.crtc_id
           r1 == add_prop(req, s.conn_res, conn, conn, "CRTC_ID", crtc,
                          addfail)
           r2 == add_prop(r1, s.crtc_res, crtc, crtc, "MODE_ID",
                          s.crtc_res.mode_blob_id, addfail)
           r3 == add_prop(r2, s.crtc_res, crtc, crtc, "ACTIVE", 1, addfail)
       IN  SetupCrtc(s, i + 1, r3, addfail)

\* The second loop of SetupPipeline, from plane i on; step is the result
\* so far.
RECURSIVE SetupPlanes(_, _, _, _)
SetupPlanes(s, i, step, addfail) ==
  IF step.rc < 0 \/ i >= s.number_of_lms
  THEN step
  ELSE SetupPlanes(s, i + 1, AtomicPopulatePlane(s, i, step.req, addfail),
                   addfail)

SetupPipeline(s, req, addfail) ==
  IF PipelineDerefsNull(s)
  THEN Step(req, 0 - EINVAL, TRUE)
  ELSE SetupPlanes(s, 0, Step(SetupCrtc(s, 0, req, addfail), 0, FALSE),
                   addfail)

DrmEnableCrtc(s, req, addfail) == SetupPipeline(s, req, addfail)

\* ------------------------------------------------------------ the kernel
PropIds(table) == {table[j].prop_id : j \in 1..Len(table)}

\* Whether the kernel accepts a property write: the property exists and
\* belongs to an object of that kind.
WriteValid(w) ==
  \/ w.obj \in CrtcIds /\ w.prop_id \in PropIds(CrtcProps)
  \/ w.obj \in ConnectorIds /\ w.prop_id \in PropIds(ConnProps)
  \/ PlaneIndexOf(w.obj) \in 0..1 /\ w.prop_id \in PropIds(PlanePropsFull)

\* What a committed write changes of the display state the model keeps: a
\* CRTC's ACTIVE and a plane's FB_ID.
ApplyWrite(k, w) ==
  LET name == KernelPropName(w.prop_id)
  IN  IF w.obj \in CrtcIds /\ name = "ACTIVE"
      THEN [k EXCEPT !.active = IF w.val = 1 THEN @ \cup {w.obj}
                                ELSE @ \ {w.obj}]
      ELSE IF PlaneIndexOf(w.obj) \in 0..1 /\ name = "FB_ID"
      THEN [k EXCEPT !.plane_fb[PlaneIndexOf(w.obj)] = w.val]
      ELSE k

RECURSIVE ApplyWrites(_, _)
ApplyWrites(k, writes) ==
  IF writes = << >> THEN k
  ELSE ApplyWrites(ApplyWrite(k, writes[1]), Tail(writes))

\* drmModeAtomicCommit: all writes take effect, or none does.  commit_ok is
\* the kernel's verdict on a request whose writes are all valid.
drmModeAtomicCommit(k, req, commit_ok) ==
  IF commit_ok /\ \A j \in 1..Len(req.writes) : WriteValid(req.writes[j])
  THEN [kernel |-> [ApplyWrites(k, req.writes) EXCEPT
                      !.log = Append(@, <<"commit", 0>>)],
        rc |-> 0]
  ELSE [kernel |-> [k EXCEPT !.log = Append(@, <<"commit", 0 - EINVAL>>)],
        rc |-> 0 - EINVAL]

\* The fb ids on screen: those bound to a plane while the main CRTC scans
\* out.
Shown(s) ==
  IF s.main_monitor_crtc.crtc_id \in s.kernel.active
  THEN {s.kernel.plane_fb[i] : i \in 0..1} \ {0}
  ELSE {}

\* --------------------------------------------------------------- Blank
\* What a call did: the state after it, the requests it allocated and
\* freed, the commits it issued, the request it built, and whether the
\* commit succeeded (ok) or the call dereferenced a null pointer (crash).
Did(s, allocs, frees, commits, writes, ok, crash) ==
  [ s |-> s, allocs |-> allocs, frees |-> frees, commits |-> commits,
    writes |-> writes, ok |-> ok, crash |-> crash ]

\* Outcomes of the kernel calls of one Blank or UpdatePlaneFB.
\* The add call that fails is none (0) or one of two positions: call 1 is
\* an add whose result is ignored (add_prop, UpdatePlaneFB), call 7 an add
\* of a plane property, whose result is checked.
AddFailAt == {0, 1, 7}
ReqIO ==
  {[alloc_ok |-> FALSE, addfail |-> 0, commit_ok |-> FALSE]} \cup
  [alloc_ok : {TRUE}, addfail : AddFailAt, commit_ok : BOOLEAN]

\* `if (blank == current_blank_state) return;`
BlankSkipsNever(s, blank) == FALSE
BlankSkips(s, blank) == blank = s.current_blank_state

\* `if (!ret) { ...; current_blank_state = blank; }`
BlankStateAlways(s, blank, rc) == blank
BlankState(s, blank, rc) ==
  IF rc = 0 THEN blank ELSE s.current_blank_state

\* Blank from `if (!ret) ret = drmModeAtomicCommit(...)` on: built is what
\* DrmDisableCrtc or DrmEnableCrtc returned, c what the commit returns if
\* it is issued.
BlankCommit(s, blank, built, c) ==
  IF built.crash
  THEN Did(s, 1, 0, 0, built.req.writes, FALSE, TRUE)
  ELSE IF built.rc # 0
  THEN Did([s EXCEPT !.current_blank_state = BlankState(s, blank, built.rc)],
           1, 1, 0, built.req.writes, FALSE, FALSE)
  ELSE Did([s EXCEPT !.kernel = c.kernel,
                     !.current_blank_state = BlankState(s, blank, c.rc)],
           1, 1, 1, built.req.writes, c.rc = 0, FALSE)

\* Blank from `if (blank) ret = DrmDisableCrtc(atomic_req)` on.
BlankBuilt(s, blank, io, built) ==
  BlankCommit(s, blank, built,
              drmModeAtomicCommit(s.kernel, built.req, io.commit_ok))

Blank(s, blank, io) ==
  IF BlankSkips(s, blank)
  THEN Did(s, 0, 0, 0, << >>, FALSE, FALSE)
  ELSE IF ~io.alloc_ok
  THEN Did(s, 0, 0, 0, << >>, FALSE, FALSE)
  ELSE BlankBuilt(s, blank, io,
                  IF blank THEN DrmDisableCrtc(s, EmptyReq, io.addfail)
                  ELSE DrmEnableCrtc(s, EmptyReq, io.addfail))

\* --------------------------------------------------------------- Flip
\* The loop of UpdatePlaneFB, from plane i on; the result of the add is not
\* looked at.
RECURSIVE UpdatePlanes(_, _, _, _)
UpdatePlanes(s, i, req, addfail) ==
  IF i >= s.number_of_lms
  THEN req
  ELSE UpdatePlanes(s, i + 1,
         drmModeAtomicAddProperty(req, s.plane_res[i + 1].plane_id,
                                  s.fb_prop_id,
                                  s.GRSurfaceDrms[s.current_buffer + 1].fb_id,
                                  addfail).req,
         addfail)

\* UpdatePlaneFB from the commit on: req is the request the loop built, c
\* what the commit returns.
UpdateCommit(s, req, c) ==
  Did([s EXCEPT !.kernel = c.kernel], 1, 1, 1, req.writes, c.rc = 0, FALSE)

UpdateBuilt(s, io, req) ==
  UpdateCommit(s, req, drmModeAtomicCommit(s.kernel, req, io.commit_ok))

UpdatePlaneFB(s, io) ==
  IF ~io.alloc_ok
  THEN Did(s, 0, 0, 0, << >>, FALSE, FALSE)
  ELSE UpdateBuilt(s, io, UpdatePlanes(s, 0, EmptyReq, io.addfail))

\* `current_buffer = 1 - current_buffer;`
NextBufferSame(b) == b
NextBuffer(b) == 1 - b

Flip(s, io) ==
  [UpdatePlaneFB(s, io) EXCEPT !.s.current_buffer = NextBuffer(@)]

\* -------------------------------------------------------------- surfaces
\* A release call on the kernel: it is recorded, and it takes effect unless
\* it is the one that fails.
Release(k, kind, id) ==
  [k EXCEPT !.log = Append(@, <<kind, id>>)]

\* The release of DrmDestroySurface that fails, if any.
RelFail == {"none", "munmap", "rmfb", "gem_close"}

\* A mapping of size bytes made for surface sid.
Mapping(sid, size) == [sid |-> sid, size |-> size]

\* A DrmDestroySurface that returns at the first release that fails.
DrmDestroySurfaceStops(k, surface, relfail) ==
  IF surface.sid = 0
  THEN k
  ELSE LET m == Mapping(surface.sid, surface.row_bytes * surface.height)
           k1 == Release(k, "munmap", m)
           k2 == Release([k1 EXCEPT !.maps = @ \ {m}], "rmfb", surface.fb_id)
           k3 == Release([k2 EXCEPT !.fbs = @ \ {surface.fb_id}],
                         "gem_close", surface.handle)
       IN  CASE relfail = "munmap" -> k1
             [] relfail = "rmfb" -> k2
             [] relfail = "gem_close" -> k3
             [] OTHER -> [k3 EXCEPT !.handles = @ \ {surface.handle},
                                    !.deleted = Append(@, surface.sid)]

\* DrmDestroySurface: each sub-resource whose field is set is released,
\* whatever the earlier releases returned, then the object is deleted.
DrmDestroySurface(k, surface, relfail) ==
  IF surface.sid = 0
  THEN k
  ELSE LET m == Mapping(surface.sid, surface.row_bytes * surface.height)
           k1 == IF surface.data # "null"
                 THEN [Release(k, "munmap", m) EXCEPT
                         !.maps = IF relfail = "munmap" THEN @ ELSE @ \ {m}]
                 ELSE k
           k2 == IF surface.fb_id # 0
                 THEN [Release(k1, "rmfb", surface.fb_id) EXCEPT
                         !.fbs = IF relfail = "rmfb" THEN @
                                 ELSE @ \ {surface.fb_id}]
                 ELSE k1
           k3 == IF surface.handle # 0
                 THEN [Release(k2, "gem_close", surface.handle) EXCEPT
                         !.handles = IF relfail = "gem_close" THEN @
                                     ELSE @ \ {surface.handle}]
                 ELSE k2
       IN  [k3 EXCEPT !.deleted = Append(@, surface.sid)]

\* The step of DrmCreateSurface that fails, or "ok".
SurfaceSteps == {"ok", "create_dumb", "add_fb", "map_dumb", "mmap"}

\* The releases DrmDestroySurface makes after each failing step: the ones
\* whose outcome is an input of that path.
ReleasesAfter(step) ==
  CASE step = "add_fb" -> {"none", "gem_close"}
    [] step = "map_dumb" -> {"none", "rmfb", "gem_close"}
    [] step = "mmap" -> RelFail
    [] OTHER -> {"none"}

\* The outcomes of the kernel calls of one DrmCreateSurface.
SurfaceIO ==
  UNION {[step : {st}, relfail : ReleasesAfter(st)] : st \in SurfaceSteps}

\* drm_format_to_bpp(format) for the format of the default build,
\* DRM_FORMAT_RGB565.
drm_format_to_bpp == 16

\* DrmCreateSurface(width, height): the kernel after the call and the
\* surface returned (NullSurface on failure).  The new object is number
\* sid; its handle and fb id are the kernel's choice, and so is the pitch,
\* here the bytes of one row of pixels.
DrmCreateSurface(k, width, height, io) ==
  LET sid == Cardinality(k.created) + 1
      pitch == width * (drm_format_to_bpp \div 8)
      k0 == [k EXCEPT !.created = @ \cup {sid}]
      s0 == [NullSurface EXCEPT !.sid = sid]
      s1 == [s0 EXCEPT !.handle = 70 + sid]
      k1 == [k0 EXCEPT !.handles = @ \cup {s1.handle}]
      s2 == [s1 EXCEPT !.fb_id = 50 + sid]
      k2 == [k1 EXCEPT !.fbs = @ \cup {s2.fb_id}]
      s3 == [s2 EXCEPT !.height = height, !.width = width,
                       !.row_bytes = pitch]
      s4 == [s3 EXCEPT !.data = "mapped"]
      k4 == [k2 EXCEPT !.maps = @ \cup {Mapping(sid, s3.height * s3.row_bytes)}]
      failed(kk, ss) ==
        [kernel |-> DrmDestroySurface(kk, ss, io.relfail),
         surface |-> NullSurface]
  IN  CASE io.step = "create_dumb" -> failed(k0, s0)
        [] io.step = "add_fb" -> failed(k1, s1)
        [] io.step = "map_dumb" -> failed(k2, s2)
        [] io.step = "mmap" -> failed(k2, [s3 EXCEPT !.data = "MAP_FAILED"])
        [] OTHER -> [kernel |-> k4, surface |-> s4]

\* close(fd).
Close(k, fd) ==
  [k EXCEPT !.closes = Append(@, fd), !.log = Append(@, <<"close", fd>>)]

\* ------------------------------------------------------------ destructor
\* ~MinuiBackendDrm: Blank(true), destroy the mode blob, destroy both
\* surfaces, close the fd.
\* A destructor that closes the fd before it releases the rest.
DestroyResourcesCloseFirst(s, relfail) ==
  LET k1 == Close(s.kernel, s.drm_fd)
      k2 == [Release(k1, "blob", s.crtc_res.mode_blob_id)
               EXCEPT !.blobs = @ \ {s.crtc_res.mode_blob_id}]
      k3 == DrmDestroySurface(k2, s.GRSurfaceDrms[1], relfail)
      k4 == DrmDestroySurface(k3, s.GRSurfaceDrms[2], relfail)
  IN  [s EXCEPT !.kernel = k4, !.drm_fd = -1]

\* The destructor after its Blank(true), on the object s.
DestroyResources(s, relfail) ==
  LET k1 == [Release(s.kernel, "blob", s.crtc_res.mode_blob_id)
               EXCEPT !.blobs = @ \ {s.crtc_res.mode_blob_id}]
      k2 == DrmDestroySurface(k1, s.GRSurfaceDrms[1], relfail)
      k3 == DrmDestroySurface(k2, s.GRSurfaceDrms[2], relfail)
      k4 == Close(k3, s.drm_fd)
  IN  [s EXCEPT !.kernel = k4, !.drm_fd = -1]

DestroyBlanked(b, relfail) ==
  IF b.crash THEN b ELSE [b EXCEPT !.s = DestroyResources(@, relfail)]

Destroy(s, io, relfail) == DestroyBlanked(Blank(s, TRUE, io), relfail)

\* ---------------------------------------------------------------- topology
Mode(w, h, preferred) == [hdisplay |-> w, vdisplay |-> h, preferred |-> preferred]
\* An encoder drmModeGetEncoder returns, and its failure.
Encoder(crtc_id, possible_crtcs) ==
  [found |-> TRUE, crtc_id |-> crtc_id, possible_crtcs |-> possible_crtcs]
NoEncoder == [found |-> FALSE, crtc_id |-> 0, possible_crtcs |-> 0]

\* The encoders of a device: one per CRTC, bound to it and able to drive
\* it alone.
EncoderOf(crtc) == 100 + crtc
DeviceEncoders ==
  [e \in {EncoderOf(c) : c \in CrtcIds} |-> Encoder(e - 100, 2 ^ (e - 131))]

\* A connector whose encoder is the one bound to crtc; with crtc = 0 it has
\* no encoder and no candidate encoder.
Connector(id, type, connected, modes, crtc) ==
  [ connector_id |-> id, connector_type |-> type, connected |-> connected,
    modes |-> modes,
    encoder_id |-> IF crtc = 0 THEN 0 ELSE EncoderOf(crtc),
    encoders |-> IF crtc = 0 THEN << >> ELSE << EncoderOf(crtc) >> ]

\* The connectors a device may report.
ConnectorKinds(id) ==
  { Connector(id, "DSI", TRUE,
              << Mode(3, 3, FALSE), Mode(4, 3, TRUE), Mode(2, 3, TRUE) >>,
              31),
    Connector(id, "DSI", TRUE, << Mode(4, 3, FALSE) >>, 0),
    Connector(id, "HDMI", TRUE, << Mode(3, 3, FALSE) >>, 32),
    Connector(id, "HDMI", FALSE, << >>, 32) }

\* One connected panel whose only mode is w x h.
Panel(w, h) == << Connector(21, "DSI", TRUE, << Mode(w, h, TRUE) >>, 31) >>

ConnectorLists ==
  {l \in UNION {[1..n -> UNION {ConnectorKinds(id) : id \in ConnectorIds}] :
                  n \in 1..MaxConnectors} :
     \A i \in 1..Len(l) : l[i].connector_id = 20 + i}

\* A mask test that is one bit off.
possibleOffByOne(mask, j) == (mask \div (2 ^ (j + 1))) % 2 = 1

\* `encoder->possible_crtcs & (1 << j)`
possible(mask, j) == (mask \div (2 ^ j)) % 2 = 1

drmModeGetEncoder(encoders, id) ==
  IF id \in DOMAIN encoders THEN encoders[id] ELSE NoEncoder

\* The loop over connector->encoders of find_crtc_for_connector from
\* encoder i (1-based) on: the CRTC id returned, 0 for nullptr.
RECURSIVE EncoderLoop(_, _, _, _)
EncoderLoop(encoders, crtcs, ids, i) ==
  IF i > Len(ids)
  THEN 0
  ELSE LET encoder == drmModeGetEncoder(encoders, ids[i])
           hit == {j \in 0..(Len(crtcs) - 1) :
                     possible(encoder.possible_crtcs, j)}
       IN  IF encoder.found /\ hit # {}
           THEN crtcs[SetMin(hit) + 1]
           ELSE EncoderLoop(encoders, crtcs, ids, i + 1)

\* find_crtc_for_connector on a device with the encoders encoders and the
\* CRTC list crtcs: the id of the CRTC returned, 0 for nullptr.
find_crtc_for_connector(encoders, crtcs, connector) ==
  LET encoder == IF connector.encoder_id # 0
                 THEN drmModeGetEncoder(encoders, connector.encoder_id)
                 ELSE NoEncoder
  IN  IF encoder.found /\ encoder.crtc_id # 0
      THEN encoder.crtc_id
      ELSE EncoderLoop(encoders, crtcs, connector.encoders, 1)

\* resources->crtcs of a device.
ResCrtcs == << 31, 32 >>

\* Index (1-based) of the connector returned, 0 for nullptr.
find_used_connector_by_type(conns, type) ==
  LET hit == {i \in 1..Len(conns) :
                /\ conns[i].connector_type = type
                /\ conns[i].connected
                /\ Len(conns[i].modes) > 0}
  IN  IF hit = {} THEN 0 ELSE SetMin(hit)

find_first_connected_connector(conns) ==
  LET hit == {i \in 1..Len(conns) :
                Len(conns[i].modes) > 0 /\ conns[i].connected}
  IN  IF hit = {} THEN 0 ELSE SetMin(hit)

\* ------------------------------------------------------- device discovery
\* What Init finds at a device node: it cannot be opened ("noopen"), it
\* has no dumb buffers or its resources cannot be read ("nocap": the same
\* two statements follow), or it is a device with count_crtcs CRTCs and
\* the connectors conns.
Node(kind, count_crtcs, conns) ==
  [kind |-> kind, count_crtcs |-> count_crtcs, conns |-> conns]
Device(conns) == Node("dev", 1, conns)

\* Nodes the loop of Init passes over whatever they report; the last is a
\* device without CRTCs and connectors.
Rejected ==
  {Node("noopen", 0, << >>), Node("nocap", 0, << >>), Node("dev", 0, << >>)}

\* A device whose only connector has nothing plugged in.
Unplugged == << Connector(21, "HDMI", FALSE, << >>, 32) >>

\* The device nodes in minor order: one device with any of the connector
\* lists, or any nodes, the devices among them with a panel or with
\* nothing plugged in.
NodeLists ==
  {<< Device(c) >> : c \in ConnectorLists} \cup
  UNION {[1..n -> Rejected \cup {Device(Panel(3, 3)), Device(Unplugged)}] :
           n \in 1..NumMinors}

\* The fd open() returns for minor i; an fd names one open().
FdOf(i) == 3 + i
Open(k, fd) ==
  [k EXCEPT !.opened = @ \cup {fd}, !.log = Append(@, <<"open", fd>>)]

\* A test that takes any device with a CRTC and a connector.
HasMonitorUnchecked(node) ==
  node.count_crtcs > 0 /\ Len(node.conns) > 0

\* `if (res->count_crtcs > 0 && res->count_connectors > 0)
\*    if (find_first_connected_connector(drm_fd, res)) break;`
HasMonitor(node) ==
  /\ node.count_crtcs > 0
  /\ Len(node.conns) > 0
  /\ find_first_connected_connector(node.conns) # 0

\* The loop `for (int i = 0; i < DRM_MAX_MINOR; i++)` of Init from node i
\* (1-based) on: drm_fd and res after it (conns: the connectors of res),
\* and the kernel.
RECURSIVE Discover(_, _, _, _)
Discover(k, nodes, i, fd) ==
  IF i > Len(nodes)
  THEN [drm_fd |-> fd, res |-> FALSE, conns |-> << >>, kernel |-> k]
  ELSE IF nodes[i].kind = "noopen"
  THEN Discover(k, nodes, i + 1, -1)
  ELSE IF nodes[i].kind = "dev" /\ HasMonitor(nodes[i])
  THEN [drm_fd |-> FdOf(i - 1), res |-> TRUE, conns |-> nodes[i].conns,
        kernel |-> Open(k, FdOf(i - 1))]
  ELSE Discover(Close(Open(k, FdOf(i - 1)), FdOf(i - 1)), nodes, i + 1,
                FdOf(i - 1))

\* A priority list in the order of the type numbers of the kernel header.
kConnectorPriorityDSIFirst == << "DSI", "LVDS", "eDP" >>

kConnectorPriority == << "LVDS", "eDP", "DSI" >>

\* The do-while of FindMainMonitor from priority i (1-based) on.
RECURSIVE FindByPriority(_, _)
FindByPriority(conns, i) ==
  LET c == find_used_connector_by_type(conns, kConnectorPriority[i])
  IN  IF c = 0 /\ i < Len(kConnectorPriority)
      THEN FindByPriority(conns, i + 1)
      ELSE c

\* A FindMainMonitor that always selects the first mode.
FindMainMonitorFirstMode(conns) ==
  LET p == FindByPriority(conns, 1)
  IN  [ connector |-> IF p = 0 THEN find_first_connected_connector(conns)
                      ELSE p,
        mode_index |-> 0 ]

\* FindMainMonitor: the index of the main connector (0: none) and
\* *mode_index.
FindMainMonitor(conns) ==
  LET p == FindByPriority(conns, 1)
      c == IF p = 0 THEN find_first_connected_connector(conns) ELSE p
      pref == IF c = 0 THEN {}
              ELSE {m \in 1..Len(conns[c].modes) : conns[c].modes[m].preferred}
  IN  [ connector |-> c,
        mode_index |-> IF pref = {} THEN 0 ELSE SetMin(pref) - 1 ]

\* The loop of DisableNonMainCrtcs from connector i (1-based) on.  early:
\* the function returned from inside the loop; crash: it dereferenced the
\* null CRTC of a connector that has none.
RECURSIVE DisableLoop(_, _, _, _)
DisableLoop(s, conns, i, req) ==
  IF i > Len(conns)
  THEN [req |-> req, early |-> FALSE, crash |-> FALSE]
  ELSE LET crtc == find_crtc_for_connector(DeviceEncoders, ResCrtcs, conns[i])
       IN  IF crtc = 0
           THEN [req |-> req, early |-> FALSE, crash |-> TRUE]
           ELSE IF crtc # s.main_monitor_crtc.crtc_id
           THEN LET prop_id == find_prop_id(s.crtc_res,
                                            s.main_monitor_crtc.crtc_id,
                                            crtc, "ACTIVE")
                    a == drmModeAtomicAddProperty(req,
                           s.main_monitor_crtc.crtc_id, prop_id, 0, 0)
                IN  IF prop_id = 0
                    THEN [req |-> req, early |-> TRUE, crash |-> FALSE]
                    ELSE IF a.rc < 0
                    THEN [req |-> a.req, early |-> TRUE, crash |-> FALSE]
                    ELSE DisableLoop(s, conns, i + 1, a.req)
           ELSE DisableLoop(s, conns, i + 1, req)

\* DisableNonMainCrtcs(fd, resources, main_crtc).
DisableNonMainCrtcs(s, conns, commit_ok) ==
  LET l == DisableLoop(s, conns, 1, EmptyReq)
      c == drmModeAtomicCommit(s.kernel, l.req, commit_ok)
  IN  IF l.crash \/ l.early
      THEN Did(s, 1, 0, 0, l.req.writes, FALSE, l.crash)
      ELSE Did([s EXCEPT !.kernel = c.kernel], 1, 1, 1, l.req.writes,
               c.rc = 0, FALSE)

\* The CRTC ids the connectors resolve to, other than the main one.
NonMainCrtcs(conns, main) ==
  {find_crtc_for_connector(DeviceEncoders, ResCrtcs, conns[i]) :
     i \in 1..Len(conns)} \ {0, main}

\* --------------------------------------------------------- layer mixers
\* The characters of the strings the model uses ("": none).
Chars(w) ==
  CASE w = "topology=" -> << "t", "o", "p", "o", "l", "o", "g", "y", "=" >>
    [] w = "sde_singlepipe" ->
         << "s", "d", "e", "_", "s", "i", "n",
            "g", "l", "e", "p", "i", "p", "e" >>
    [] w = "sde_singlepipe_dsc" ->
         << "s", "d", "e", "_", "s", "i", "n", "g", "l",
            "e", "p", "i", "p", "e", "_", "d", "s", "c" >>
    [] w = "sde_dualpipe" ->
         << "s", "d", "e", "_", "d", "u",
            "a", "l", "p", "i", "p", "e" >>
    [] w = "sde_dualpipe_dsc" ->
         << "s", "d", "e", "_", "d", "u", "a", "l",
            "p", "i", "p", "e", "_", "d", "s", "c" >>
    [] w = "sde_dualpipemerge" ->
         << "s", "d", "e", "_", "d", "u", "a", "l",
            "p", "i", "p", "e", "m", "e", "r", "g", "e" >>
    [] w = "sde_dualpipemerge_dsc" ->
         << "s", "d", "e", "_", "d", "u", "a", "l", "p", "i",
            "p", "e", "m", "e", "r", "g", "e", "_", "d", "s", "c" >>
    [] w = "sde_dualpipe_dscmerge" ->
         << "s", "d", "e", "_", "d", "u", "a", "l", "p", "i",
            "p", "e", "_", "d", "s", "c", "m", "e", "r", "g", "e" >>
    [] w = "sde_ppsplit" ->
         << "s", "d", "e", "_", "p",
            "p", "s", "p", "l", "i", "t" >>
    [] w = "foo" -> << "f", "o", "o" >>
    [] w = "bar" -> << "b", "a", "r" >>
    [] w = "old_topology=x" ->
         << "o", "l", "d", "_", "t", "o", "p",
            "o", "l", "o", "g", "y", "=", "x" >>
    [] w = "sde_none" -> << "s", "d", "e", "_", "n", "o", "n", "e" >>
    [] OTHER -> << >>

\* A get_lm_number that knows no single-mixer topology.
get_lm_numberAllTwo(topology) == 2

get_lm_number(topology) ==
  CASE topology = Chars("sde_singlepipe") -> 1
    [] topology = Chars("sde_singlepipe_dsc") -> 1
    [] topology = Chars("sde_dualpipe") -> 2
    [] topology = Chars("sde_dualpipe_dsc") -> 2
    [] topology = Chars("sde_dualpipemerge") -> 2
    [] topology = Chars("sde_dualpipemerge_dsc") -> 2
    [] topology = Chars("sde_dualpipe_dscmerge") -> 2
    [] topology = Chars("sde_ppsplit") -> 1
    [] OTHER -> 2

\* line.find(str): the first position (0-based) where str occurs in line,
\* -1 for npos.
find(line, str) ==
  LET hit == {i \in 0..(Len(line) - Len(str)) :
                SubSeq(line, i + 1, i + Len(str)) = str}
  IN  IF hit = {} THEN -1 ELSE SetMin(hit)

\* std::getline(stream, line) until the stream ends: the lines of text.
RECURSIVE getline(_)
getline(text) ==
  LET nl == {i \in 1..Len(text) : text[i] = "\n"}
  IN  IF text = << >> THEN << >>
      ELSE IF nl = {} THEN << text >>
      ELSE << SubSeq(text, 1, SetMin(nl) - 1) >>
             \o getline(SubSeq(text, SetMin(nl) + 1, Len(text)))

\* The while loop of get_topology_lm_number from line i on.
RECURSIVE TopologyLoop(_, _, _)
TopologyLoop(lines, i, num_lm) ==
  IF i > Len(lines)
  THEN num_lm
  ELSE IF find(lines[i], Chars("topology=")) # -1
  THEN TopologyLoop(lines, i + 1,
         get_lm_number(SubSeq(lines[i], Len(Chars("topology=")) + 1,
                              Len(lines[i]))))
  ELSE TopologyLoop(lines, i + 1, num_lm)

\* A property blob: whether drmModeGetPropertyBlob returns it, and its
\* text.
Blob(readable, data) == [readable |-> readable, data |-> data]

get_topology_lm_number(blob) ==
  IF ~blob.readable THEN 2 ELSE TopologyLoop(getline(blob.data), 1, 2)

\* The lines joined by newlines.
RECURSIVE Join(_)
Join(lines) ==
  IF lines = << >> THEN << >>
  ELSE IF Len(lines) = 1 THEN lines[1]
  ELSE lines[1] \o << "\n" >> \o Join(Tail(lines))

\* -------------------------------------------------------------------- Init
\* The steps of Init after the surfaces, in order; LateFail names the first
\* one that fails.
LateFail == {"none", "plane_options", "crtc_props", "conn_props",
             "get_plane", "blob"}
\* The topology the connector reports: no "mode_properties" property at
\* all, or the topology name in its blob.
Topologies == {"<no property>", "sde_singlepipe", "sde_dualpipe_dsc"}
ConnPropsNoTopology == SelectSeq(ConnProps, LAMBDA p : p.name # "mode_properties")
\* The planes whose property fetch fails (Init goes on: `continue`).
NoProps == {{}, {1}, {0}}
\* (NoProps is cut to the planes in use by PlanesOf.)

\* The inputs of the late steps; after a failing step nothing is read.
LateIO ==
  [fail : LateFail \ {"none"}, topology : {"<no property>"},
   table : {PlanePropsFull}, noprops : {{}}] \cup
  [fail : {"none"}, topology : Topologies, table : PlanePropTables,
   noprops : NoProps]

\* plane_res after the two plane loops of Init.
PlanesOf(lms, table, noprops) ==
  [i \in 1..lms |->
     IF (i - 1) \in noprops
     THEN [plane_id |-> PlaneIdOf(i - 1), props |-> FALSE, props_info |-> << >>]
     ELSE [plane_id |-> PlaneIdOf(i - 1), props |-> TRUE, props_info |-> table]]

\* Init from drmSetClientCap to the statement before Blank(false): the
\* state, the step where it returned NULL ("none": it went through), and
\* whether find_plane_prop_id dereferenced the null props of plane 0.
InitLate(s, io) ==
  LET lms == IF io.topology = "<no property>" THEN s.number_of_lms
             ELSE get_topology_lm_number(
                    Blob(TRUE, Chars("topology=") \o Chars(io.topology)))
      s1 == [s EXCEPT !.crtc_res = [props |-> io.fail # "crtc_props",
                                   props_info |-> << >>,
                                   mode_blob_id |-> @.mode_blob_id]]
      s2 == [s1 EXCEPT !.crtc_res.props_info = CrtcProps,
                       !.conn_res = [props |-> io.fail # "conn_props",
                                     props_info |-> << >>]]
      s3 == [s2 EXCEPT !.conn_res.props_info =
                          IF io.topology = "<no property>"
                          THEN ConnPropsNoTopology ELSE ConnProps,
                       !.number_of_lms = lms]
      s4 == [s3 EXCEPT !.plane_res = PlanesOf(lms, io.table, io.noprops)]
      s5 == [s4 EXCEPT !.crtc_res.mode_blob_id = CHOOSE b \in BlobIds : TRUE,
                       !.kernel.blobs = @ \cup BlobIds]
      s6 == [s5 EXCEPT !.fb_prop_id =
               find_plane_prop_id(s5.plane_res[1].plane_id, "FB_ID",
                                  s5.plane_res)]
      out(st, crash) == [s |-> st, step |-> io.fail, crash |-> crash]
  IN  CASE io.fail = "plane_options" -> out(s, FALSE)
        [] io.fail = "crtc_props" -> out(s1, FALSE)
        [] io.fail = "conn_props" -> out(s2, FALSE)
        [] io.fail = "get_plane" -> out(s3, FALSE)
        [] io.fail = "blob" -> out(s4, FALSE)
        [] OTHER -> IF 0 \in io.noprops THEN out(s5, TRUE)
                    ELSE out(s6, FALSE)

\* What Init did, for the record of the last call: the step it ended at,
\* the non-main CRTCs of the device and what DisableNonMainCrtcs did, and
\* whether it reached the Blank(false) that ends it.
NoInit == [step |-> "", nonmain |-> {}, dis |-> << >>, unblank |-> FALSE]
LastCall(op, blank, was_blank, did, init) ==
  [ op |-> op, blank |-> blank, was_blank |-> was_blank,
    allocs |-> did.allocs, frees |-> did.frees, commits |-> did.commits,
    writes |-> did.writes, ok |-> did.ok, init |-> init ]
Nothing == [allocs |-> 0, frees |-> 0, commits |-> 0, writes |-> << >>,
            ok |-> FALSE, crash |-> FALSE]
DisOf(d) == [allocs |-> d.allocs, frees |-> d.frees, commits |-> d.commits,
             writes |-> d.writes, ok |-> d.ok]

\* Init returns: result is the sid of the surface returned, 0 for nullptr.
InitReturns(s, result, did, init) ==
  /\ Becomes(s)
  /\ pc' = IF did.crash THEN "crashed"
           ELSE IF result = 0 THEN "failed" ELSE "ready"
  /\ ret' = result
  /\ nflips' = 0
  /\ last' = LastCall("Init", FALSE, current_blank_state, did, init)

\* The end of Init: `Blank(false); return GRSurfaceDrms[0].get();`, b being
\* what Blank did.
InitUnblank(b, init) ==
  InitReturns(b.s, b.s.GRSurfaceDrms[1].sid, b,
              [init EXCEPT !.step = "none", !.unblank = TRUE])

\* Init after the late steps gave l: return nullptr when one failed, else
\* go on to Blank(false).
InitEnable(l, init) ==
  IF l.crash
  THEN InitReturns(l.s, 0, [Nothing EXCEPT !.crash = TRUE],
                   [init EXCEPT !.step = "fb_prop_id"])
  ELSE IF l.step # "none"
  THEN InitReturns(l.s, 0, Nothing, [init EXCEPT !.step = l.step])
  ELSE \E io \in ReqIO : InitUnblank(Blank(l.s, FALSE, io), init)

\* Init from `GRSurfaceDrms[0] = DrmCreateSurface(width, height)` on.
InitBuffers(s, init) ==
  \E io0 \in SurfaceIO, io1 \in SurfaceIO :
    LET width == s.main_monitor_crtc.hdisplay
        height == s.main_monitor_crtc.vdisplay
        c0 == DrmCreateSurface(s.kernel, width, height, io0)
        c1 == DrmCreateSurface(c0.kernel, width, height, io1)
        s1 == [s EXCEPT !.kernel = c1.kernel,
                        !.GRSurfaceDrms = << c0.surface, c1.surface >>]
        s2 == [s1 EXCEPT !.current_buffer = 0]
    IN  IF c0.surface = NullSurface \/ c1.surface = NullSurface
        THEN InitReturns(s1, 0, Nothing, [init EXCEPT !.step = "surfaces"])
        ELSE \E lio \in LateIO : InitEnable(InitLate(s2, lio), init)

\* Init from FindMainMonitor to `drmModeFreeResources(res)`.
InitTopology(s, conns) ==
    LET m == FindMainMonitor(conns)
        crtc == find_crtc_for_connector(DeviceEncoders, ResCrtcs,
                                        conns[m.connector])
        s1 == [s EXCEPT !.main_monitor_connector =
                           conns[m.connector].connector_id]
        mode == conns[m.connector].modes[m.mode_index + 1]
        s2 == [s1 EXCEPT !.main_monitor_crtc =
                 [crtc_id |-> crtc, hdisplay |-> 0, vdisplay |-> 0]]
        closed(st) == [st EXCEPT !.kernel = Close(@, st.drm_fd)]
    IN  IF m.connector = 0
        THEN InitReturns(closed(s), 0, Nothing,
                         [NoInit EXCEPT !.step = "connector"])
        ELSE IF crtc = 0
        THEN InitReturns(closed(s1), 0, Nothing,
                         [NoInit EXCEPT !.step = "crtc"])
        ELSE \E commit_ok \in BOOLEAN :
               LET d == DisableNonMainCrtcs(s2, conns, commit_ok)
                   init == [NoInit EXCEPT
                              !.nonmain = NonMainCrtcs(conns, crtc),
                              !.dis = DisOf(d)]
                   s3 == [d.s EXCEPT !.main_monitor_crtc.hdisplay = mode.hdisplay,
                                     !.main_monitor_crtc.vdisplay = mode.vdisplay]
               IN  IF d.crash
                   THEN InitReturns(d.s, 0, [Nothing EXCEPT !.crash = TRUE],
                                    [init EXCEPT !.step = "disable"])
                   ELSE InitBuffers(s3, init)

\* Init() on a system whose device nodes are one of nodeLists; the boot
\* loader has left no CRTC scanning out, or all of them.
InitOn(nodeLists) ==
  /\ pc = "new"
  /\ \E nodes \in nodeLists, active \in {{}, CrtcIds} :
       LET d == Discover([Calling.kernel EXCEPT !.active = active,
                                                 !.nodes = nodes],
                         nodes, 1, drm_fd)
           s == [Now EXCEPT !.number_of_lms = DEFAULT_NUM_LMS,
                            !.drm_fd = d.drm_fd, !.kernel = d.kernel]
       IN  IF d.drm_fd < 0 \/ ~d.res
           THEN InitReturns(s, 0, Nothing, [NoInit EXCEPT !.step = "device"])
           ELSE InitTopology(s, d.conns)

\* ----------------------------------------------------------- the calls
\* Init on any system within the bounds.
InitCall == InitOn(NodeLists)

\* A system with one device node and one connected panel.
OnePanel == {<< Device(Panel(4, 3)) >>}
InitPanel == InitOn(OnePanel)

\* A system with one device node and one connected panel whose only mode
\* has any of the widths.
AnyPanel == {<< Device(Panel(w, h)) >> : w \in Widths, h \in Heights}
InitAnyWidth == InitOn(AnyPanel)

\* DrmCreateSurface returns: c is the kernel after it and the surface.
SurfaceCreated(slot, io, c) ==
  /\ kernel' = c.kernel
  /\ GRSurfaceDrms' = [GRSurfaceDrms EXCEPT ![slot] = c.surface]
  /\ last' = [op |-> "DrmCreateSurface", surface |-> c.surface,
              step |-> io.step, relfail |-> io.relfail,
              sid |-> Cardinality(kernel.created) + 1]
  /\ UNCHANGED << pc, current_blank_state, current_buffer, drm_fd,
                  main_monitor_crtc, main_monitor_connector, number_of_lms,
                  fb_prop_id, crtc_res, conn_res, plane_res, ret, nflips,
                  install >>

\* Flip returns: f is what the call did.
FlipReturns(f) ==
  /\ Becomes(f.s)
  /\ ret' = f.s.GRSurfaceDrms[f.s.current_buffer + 1].sid
  /\ last' = LastCall("Flip", FALSE, current_blank_state, f, NoInit)
  /\ nflips' = nflips + 1
  /\ pc' = pc

FlipCall ==
  /\ pc = "ready"
  /\ nflips < MaxFlips
  /\ \E io \in ReqIO : FlipReturns(Flip(Calling, io))

BlankReturns(blank, b) ==
  /\ Becomes(b.s)
  /\ pc' = IF b.crash THEN "crashed" ELSE pc
  /\ last' = LastCall("Blank", blank, current_blank_state, b, NoInit)
  /\ UNCHANGED << ret, nflips >>

BlankCall ==
  /\ pc = "ready"
  /\ \E blank \in BOOLEAN, io \in ReqIO :
       BlankReturns(blank, Blank(Calling, blank, io))

DestroyReturns(d) ==
  /\ Becomes(d.s)
  /\ pc' = IF d.crash THEN "crashed" ELSE "dead"
  /\ last' = LastCall("Destroy", TRUE, current_blank_state, d, NoInit)
  /\ UNCHANGED << ret, nflips >>

DestroyCall ==
  /\ pc \in {"new", "ready", "failed"}
  /\ \E io \in ReqIO, relfail \in RelFail :
       DestroyReturns(Destroy(Calling, io, relfail))

\* DrmCreateSurface(width, height) on its own, the result going to a free
\* slot of GRSurfaceDrms as in Init.
CreateSurfaceCall ==
  /\ pc = "new"
  /\ Cardinality(kernel.created) < MaxSurfaces
  /\ \E slot \in 1..2, width \in Widths, height \in Heights, io \in SurfaceIO :
       /\ GRSurfaceDrms[slot] = NullSurface
       /\ SurfaceCreated(slot, io,
                         DrmCreateSurface(Calling.kernel, width, height, io))

\* DrmDestroySurface(GRSurfaceDrms[slot]) on its own, a null surface
\* included.
DestroySurfaceCall ==
  /\ pc = "new"
  /\ \E slot \in 1..2, relfail \in RelFail :
       /\ kernel' = DrmDestroySurface(Calling.kernel, GRSurfaceDrms[slot],
                                      relfail)
       /\ GRSurfaceDrms' = [GRSurfaceDrms EXCEPT ![slot] = NullSurface]
       /\ last' = [op |-> "DrmDestroySurface", surface |-> GRSurfaceDrms[slot],
                   relfail |-> relfail]
  /\ UNCHANGED << pc, current_blank_state, current_buffer, drm_fd,
                  main_monitor_crtc, main_monitor_connector, number_of_lms,
                  fb_prop_id, crtc_res, conn_res, plane_res, ret, nflips,
                  install >>

\* InstallWithFuseFromPath before it is called: no child, nothing polled.
\* status is the local `int status`, which has no initializer.
NotStarted ==
  [ at |-> "idle", i |-> 0, child |-> "none", child_status |-> "",
    file |-> FALSE, asked |-> FALSE, status |-> "indeterminate",
    waited |-> FALSE, result |-> "", polls |-> 0, sleeps |-> 0,
    kills |-> 0, installs |-> 0, inspected |-> "" ]

\* The object after MinuiBackendDrm(): the constructor sets GRSurfaceDrms,
\* main_monitor_crtc, main_monitor_connector and drm_fd and nothing else,
\* and current_blank_state has no initializer, so it holds either value.
\* (The other unset members are written by Init before they are read.)
Init ==
  /\ pc = "new"
  /\ current_blank_state \in BOOLEAN
  /\ current_buffer = 0
  /\ GRSurfaceDrms = << NullSurface, NullSurface >>
  /\ drm_fd = -1
  /\ main_monitor_crtc = NullCrtc
  /\ main_monitor_connector = 0
  /\ number_of_lms = 0
  /\ fb_prop_id = 0
  /\ crtc_res = NullRes
  /\ conn_res = [props |-> FALSE, props_info |-> << >>]
  /\ plane_res = << >>
  /\ kernel = Kernel0
  /\ ret = 0
  /\ nflips = 0
  /\ install = NotStarted
  /\ last = LastCall("none", FALSE, FALSE, Nothing, NoInit)

\* The backend in use: Init on a panel, then any Flip and Blank calls, then
\* the destructor.
Next == InitPanel \/ FlipCall \/ BlankCall \/ DestroyCall

Spec == Init /\ [][Next]_vars

\* Start-up and shutdown on any system: Init, then the destructor.
NextInit == InitCall \/ DestroyCall

SpecInit == Init /\ [][NextInit]_vars

\* The pipeline on panels of every width: Init, then any Blank calls.
NextPlanes == InitAnyWidth \/ BlankCall

SpecPlanes == Init /\ [][NextPlanes]_vars

\* FindMainMonitor on the connectors of any device: every type of the
\* priority list and one outside it, plugged in or not, with a mode or
\* without.
AnyConnectorLists ==
  LET kinds(id) == {Connector(id, type, connected, modes, 31) :
                      type \in {"LVDS", "eDP", "DSI", "HDMI"},
                      connected \in BOOLEAN,
                      modes \in {<< >>, << Mode(4, 3, FALSE) >>}}
  IN  {l \in UNION {[1..n -> UNION {kinds(id) : id \in ConnectorIds}] :
                      n \in 1..MaxConnectors} :
         \A i \in 1..Len(l) : l[i].connector_id = 20 + i}

\* What the functions leave alone: all of the backend, and the installer.
Display ==
  << pc, current_blank_state, current_buffer, GRSurfaceDrms, drm_fd,
     main_monitor_crtc, main_monitor_connector, number_of_lms, fb_prop_id,
     crtc_res, conn_res, plane_res, kernel, ret, nflips >>
Backend == << Display, install >>

\* The functions keep no state: each is called once on each input.
FindMainMonitorCall ==
  /\ last.op = "none"
  /\ \E conns \in AnyConnectorLists :
       last' = [op |-> "FindMainMonitor", conns |-> conns,
                result |-> FindMainMonitor(conns)]
  /\ UNCHANGED Backend

\* The encoders a device may have: one that cannot be read, or one bound
\* to no CRTC or to the second one, able to drive any of the CRTCs.
EncoderTables ==
  [1..MaxEncoders ->
     {NoEncoder} \cup {Encoder(c, m) : c \in {0, ResCrtcs[2]}, m \in 0..3}]

\* find_crtc_for_connector on a connector with any current encoder and any
\* candidate encoders.
FindCrtcCall ==
  /\ last.op = "none"
  /\ \E encoders \in EncoderTables, encoder_id \in 0..MaxEncoders,
        n \in 0..MaxEncoders :
       \E ids \in [1..n -> 1..MaxEncoders] :
         last' = [op |-> "find_crtc_for_connector", encoders |-> encoders,
                  encoder_id |-> encoder_id, ids |-> ids,
                  result |-> find_crtc_for_connector(encoders, ResCrtcs,
                               [encoder_id |-> encoder_id, encoders |-> ids])]
  /\ UNCHANGED Backend

\* Init on a device whose panel has a current encoder or none, and a
\* candidate encoder or none.
CrtcDevices ==
  { << Device(<< [Connector(21, "DSI", TRUE, << Mode(4, 3, TRUE) >>, 31)
                    EXCEPT !.encoder_id = encoder_id, !.encoders = ids] >>) >> :
      encoder_id \in {0, EncoderOf(31)}, ids \in {<< >>, << EncoderOf(32) >>} }
InitCrtc == last.op = "none" /\ InitOn(CrtcDevices)

\* get_lm_number on every topology name, on the empty string and on
\* strings that name no topology.
TopologyStrings ==
  {Chars(w) : w \in {"sde_singlepipe", "sde_singlepipe_dsc", "sde_dualpipe",
                     "sde_dualpipe_dsc", "sde_dualpipemerge",
                     "sde_dualpipemerge_dsc", "sde_dualpipe_dscmerge",
                     "sde_ppsplit", "", "sde_none", "foo", "topology="}}

GetLmNumberCall ==
  /\ last.op = "none"
  /\ \E topology \in TopologyStrings :
       last' = [op |-> "get_lm_number", topology |-> topology,
                result |-> get_lm_number(topology)]
  /\ UNCHANGED Backend

\* The lines of a topology blob: the topology of the connector, lines
\* without a key, and a line of another key.
BlobLines ==
  {Chars("topology=") \o Chars("sde_singlepipe"),
   Chars("topology=") \o Chars("sde_dualpipe_dsc"),
   Chars("foo"), Chars("bar"), Chars("old_topology=x")}

\* A blob that cannot be read, and the blobs of up to MaxLines lines.
Blobs ==
  {[readable |-> FALSE, lines |-> << >>]} \cup
  [readable : {TRUE}, lines : UNION {[1..n -> BlobLines] : n \in 0..MaxLines}]

GetTopologyLmNumberCall ==
  /\ last.op = "none"
  /\ \E b \in Blobs :
       last' = [op |-> "get_topology_lm_number", readable |-> b.readable,
                lines |-> b.lines,
                result |-> get_topology_lm_number(
                             Blob(b.readable, Join(b.lines)))]
  /\ UNCHANGED Backend

\* The functions of the topology resolver, each on any of its inputs.
NextFunctions ==
  \/ FindMainMonitorCall
  \/ FindCrtcCall
  \/ InitCrtc
  \/ GetLmNumberCall
  \/ GetTopologyLmNumberCall

SpecFunctions == Init /\ [][NextFunctions]_vars

\* The surface methods on their own: any creations and destructions.
NextSurface == CreateSurfaceCall \/ DestroySurfaceCall

SpecSurface == Init /\ [][NextSurface]_vars

\* ------------------------------------------------------ install from fuse
\* File names are tuples of characters.
\* std::string operator<: the names are compared byte by byte; Alphabet
\* lists the characters in use in the order of their codes.
RECURSIVE less(_, _)
less(a, b) ==
  LET Alphabet == << "-", ".", "/", "I", "P", "Z", "a", "b", "c", "d",
                     "i", "m", "n", "p", "t", "x", "z" >>
      Code(c) == CHOOSE k \in 1..Len(Alphabet) : Alphabet[k] = c
  IN  IF b = << >> THEN FALSE
      ELSE IF a = << >> THEN TRUE
      ELSE IF Head(a) # Head(b) THEN Code(Head(a)) < Code(Head(b))
      ELSE less(Tail(a), Tail(b))

\* std::sort on a vector of distinct strings, given as their set.
RECURSIVE sort(_)
sort(names) ==
  IF names = {} THEN << >>
  ELSE LET first == CHOOSE x \in names : \A y \in names \ {x} : less(x, y)
       IN  << first >> \o sort(names \ {first})

EndsWithIgnoreCase(name, suffix) ==
  LET tolower(c) ==
        CASE c = "I" -> "i" [] c = "P" -> "p" [] c = "Z" -> "z" [] OTHER -> c
  IN  /\ Len(name) >= Len(suffix)
      /\ \A k \in 1..Len(suffix) :
           tolower(name[Len(name) - Len(suffix) + k]) = tolower(suffix[k])

\* "../"
Up == << ".", ".", "/" >>

\* What a directory may hold besides "." and "..": packages in either
\* case, a file that is no package, a package behind a symbolic link,
\* and subdirectories.
DirentPool ==
  { [d_name |-> << "a", ".", "z", "i", "p" >>, d_type |-> "DT_REG"],
    [d_name |-> << "b", ".", "Z", "I", "P" >>, d_type |-> "DT_REG"],
    [d_name |-> << "-", "a", ".", "z", "i", "p" >>, d_type |-> "DT_REG"],
    [d_name |-> << "c", ".", "m", "a", "p" >>, d_type |-> "DT_REG"],
    [d_name |-> << "n", ".", "t", "x", "t" >>, d_type |-> "DT_REG"],
    [d_name |-> << "x", ".", "z", "i", "p" >>, d_type |-> "DT_LNK"],
    [d_name |-> << "d" >>, d_type |-> "DT_DIR"],
    [d_name |-> << "-", "d" >>, d_type |-> "DT_DIR"] }
Directories ==
  { d \cup {[d_name |-> << "." >>, d_type |-> "DT_DIR"],
            [d_name |-> << ".", "." >>, d_type |-> "DT_DIR"]} :
      d \in {s \in SUBSET DirentPool : Cardinality(s) <= MaxEntries} }

\* The menu BrowseDirectory builds from what readdir returns: "../" and the
\* packages, sorted together, then the subdirectories, sorted.
BrowseMenu(dir) ==
  LET dirs == { de.d_name \o << "/" >> :
                  de \in {e \in dir : /\ e.d_type = "DT_DIR"
                                      /\ e.d_name # << "." >>
                                      /\ e.d_name # << ".", "." >>} }
      entries == {Up} \cup
                 { de.d_name :
                     de \in {e \in dir :
                              /\ e.d_type = "DT_REG"
                              /\ \/ EndsWithIgnoreCase(e.d_name,
                                                       << ".", "z", "i", "p" >>)
                                 \/ EndsWithIgnoreCase(e.d_name,
                                                       << ".", "m", "a", "p" >>)} }
  IN  sort(entries) \o sort(dirs)


\* One round of the loop of BrowseDirectory on the menu entries: what it
\* returns ("" to go up, "@" to go home, the package chosen), or the
\* subdirectory it descends into.
BrowseChoice(entries, chosen_item) ==
  IF chosen_item.key = "INTERRUPTED"
  THEN [returns |-> << >>, descends |-> << >>]
  ELSE IF chosen_item.key = "kGoHome"
  THEN [returns |-> << "@" >>, descends |-> << >>]
  ELSE IF chosen_item.key = "kGoBack" \/ chosen_item.index = 0
  THEN [returns |-> << >>, descends |-> << >>]
  ELSE LET item == entries[chosen_item.index + 1]
       IN  IF item[Len(item)] = "/"
           THEN [returns |-> << >>, descends |-> SubSeq(item, 1, Len(item) - 1)]
           ELSE [returns |-> item, descends |-> << >>]

\* BrowseDirectory on any directory; ShowMenu returns one of its special
\* values or the index of any entry.
BrowseDirectoryCall ==
  /\ last.op = "none"
  /\ install.at = "idle"
  /\ \E dir \in Directories :
       \E chosen_item \in
            {[key |-> k, index |-> 0] :
               k \in {"INTERRUPTED", "kGoHome", "kGoBack"}}
            \cup {[key |-> "item", index |-> c] :
                    c \in 0..(Len(BrowseMenu(dir)) - 1)} :
         last' = [op |-> "BrowseDirectory", dir |-> dir,
                  entries |-> BrowseMenu(dir), chosen_item |-> chosen_item,
                  choice |-> BrowseChoice(BrowseMenu(dir), chosen_item)]
  /\ UNCHANGED Backend

\* BrowseDirectory(path, ...) on the directory dir, ShowMenu returning the
\* values keys one after the other (the wait for a key is interrupted when
\* they run out): the path returned, how the browsing ended, the keys
\* left, and whether every index was one of the menu shown.  A subdirectory
\* holds one package and no directory.
RECURSIVE BrowseDirectory(_, _, _)
BrowseDirectory(path, dir, keys) ==
  LET entries == BrowseMenu(dir)
      subdir == {[d_name |-> << "." >>, d_type |-> "DT_DIR"],
                 [d_name |-> << ".", "." >>, d_type |-> "DT_DIR"],
                 [d_name |-> << "a", ".", "z", "i", "p" >>, d_type |-> "DT_REG"]}
      out(p, ended, rest, valid) ==
        [path |-> p, ended |-> ended, keys |-> rest, valid |-> valid]
  IN  IF keys = << >> THEN out(<< >>, "INTERRUPTED", << >>, TRUE)
      ELSE IF Head(keys).index >= Len(entries)
      THEN out(<< >>, "", << >>, FALSE)
      ELSE LET c == BrowseChoice(entries, Head(keys))
               item == entries[Head(keys).index + 1]
               r == BrowseDirectory(path \o << "/" >> \o c.descends, subdir,
                                    Tail(keys))
           IN  IF Head(keys).key # "item"
               THEN out(c.returns, Head(keys).key, Tail(keys), TRUE)
               ELSE IF Head(keys).index = 0
               THEN out(<< >>, "up", Tail(keys), TRUE)
               ELSE IF c.descends # << >>
               THEN IF ~r.valid \/ r.path # << >> THEN r
                    ELSE BrowseDirectory(path, dir, r.keys)
               ELSE out(path \o << "/" >> \o item, "package", Tail(keys),
                        TRUE)

\* waitpid(child, &status, ...) when it does not block: the call reaps a
\* child that has terminated; it fails when there is no child to wait for.
waitpid(in) ==
  CASE in.child = "zombie" ->
         [rc |-> 1, in |-> [in EXCEPT !.status = in.child_status,
                                      !.child = "reaped"]]
    [] in.child = "running" -> [rc |-> 0, in |-> in]
    [] OTHER -> [rc |-> -1, in |-> in]

\* kill(child, SIGKILL): a running child terminates.
kill(in) ==
  [in EXCEPT !.kills = @ + 1,
             !.child = IF @ = "running" THEN "zombie" ELSE @,
             !.child_status = IF in.child = "running" THEN "SIGKILL" ELSE @,
             !.file = IF in.child = "running" THEN FALSE ELSE @]

\* `child = fork()`: the child runs, or fork fails and child is -1; the
\* process has no other child.
Fork ==
  /\ last.op = "none"
  /\ install.at = "idle"
  /\ \E child \in {"running", "none"} :
       install' = [install EXCEPT !.at = "poll", !.child = child,
                                  !.result = "INSTALL_ERROR"]
  /\ UNCHANGED << Display, last >>

\* The head of the loop and its waitpid(child, &status, WNOHANG).
Poll ==
  /\ install.at = "poll"
  /\ LET w == waitpid(install)
     IN  install' =
           IF install.i >= SDCARD_INSTALL_TIMEOUT
           THEN [install EXCEPT !.at = "after"]
           ELSE IF w.rc = -1
           THEN [w.in EXCEPT !.result = "INSTALL_ERROR", !.waited = TRUE,
                             !.at = "after"]
           ELSE [w.in EXCEPT !.at = "stat"]
  /\ UNCHANGED << Display, last >>

\* A loop that sleeps after its last poll as after the others.
StatSleepsAlways ==
  /\ install.at = "stat"
  /\ LET in == [install EXCEPT !.polls = @ + 1]
     IN  IF ~install.file
         THEN \E enoent \in BOOLEAN :
                install' =
                  IF enoent /\ install.i < SDCARD_INSTALL_TIMEOUT
                  THEN [in EXCEPT !.at = "sleep"]
                  ELSE [kill(in) EXCEPT !.result = "INSTALL_ERROR",
                                        !.at = "after"]
         ELSE \E result \in {"INSTALL_SUCCESS", "INSTALL_ERROR",
                               "INSTALL_CORRUPT"} :
                install' = [in EXCEPT !.installs = @ + 1, !.result = result,
                                      !.at = "after"]
  /\ UNCHANGED << Display, last >>

\* stat(FUSE_SIDELOAD_HOST_PATHNAME) and what follows it in the iteration:
\* the sleep is to come, or the child is killed, or the package is installed.
Stat ==
  /\ install.at = "stat"
  /\ LET in == [install EXCEPT !.polls = @ + 1]
     IN  IF ~install.file
         THEN \E enoent \in BOOLEAN :
                install' =
                  IF enoent /\ install.i < SDCARD_INSTALL_TIMEOUT - 1
                  THEN [in EXCEPT !.at = "sleep"]
                  ELSE [kill(in) EXCEPT !.result = "INSTALL_ERROR",
                                        !.at = "after"]
         ELSE \E result \in {"INSTALL_SUCCESS", "INSTALL_ERROR",
                               "INSTALL_CORRUPT"} :
                install' = [in EXCEPT !.installs = @ + 1, !.result = result,
                                      !.at = "after"]
  /\ UNCHANGED << Display, last >>

\* `sleep(1); continue;`
Sleep ==
  /\ install.at = "sleep"
  /\ install' = [install EXCEPT !.sleeps = @ + 1, !.i = @ + 1, !.at = "poll"]
  /\ UNCHANGED << Display, last >>

\* `if (!waited)`: the stat of the exit pathname asks the fuse child to shut
\* down.
AfterLoop ==
  /\ install.at = "after"
  /\ install' = IF ~install.waited
                THEN [install EXCEPT !.asked = TRUE, !.at = "wait"]
                ELSE [install EXCEPT !.at = "inspect"]
  /\ UNCHANGED << Display, last >>

\* `waitpid(child, &status, 0)`, which blocks while the child runs; its
\* result is not looked at.
Wait ==
  /\ install.at = "wait"
  /\ install.child # "running"
  /\ install' = [waitpid(install).in EXCEPT !.at = "inspect"]
  /\ UNCHANGED << Display, last >>

\* `if (!WIFEXITED(status) || ...) ...; return result;`
Return ==
  /\ install.at = "inspect"
  /\ install' = [install EXCEPT !.inspected = install.status,
                                !.at = "returned"]
  /\ UNCHANGED << Display, last >>

\* The fuse child: it makes the package file appear, it may exit at any
\* time on its own, and it exits once it is asked to shut down.
ChildReady ==
  /\ install.at \notin {"idle", "returned"}
  /\ install.child = "running" /\ ~install.file /\ ~install.asked
  /\ install' = [install EXCEPT !.file = TRUE]
  /\ UNCHANGED << Display, last >>

ChildExits ==
  /\ install.at \notin {"idle", "returned"}
  /\ install.child = "running" /\ ~install.asked
  /\ \E code \in {"EXIT_SUCCESS", "EXIT_FAILURE"} :
       install' = [install EXCEPT !.child = "zombie", !.child_status = code,
                                  !.file = FALSE]
  /\ UNCHANGED << Display, last >>

ChildShutsDown ==
  /\ install.child = "running" /\ install.asked
  /\ \E code \in {"EXIT_SUCCESS", "EXIT_FAILURE"} :
       install' = [install EXCEPT !.child = "zombie", !.child_status = code,
                                  !.file = FALSE]
  /\ UNCHANGED << Display, last >>

\* ApplyFromSdcard up to its call of InstallWithFuseFromPath: the mount,
\* the browsing of /sdcard, the bootloader message and the fork of the
\* fuse child; or its return when it does not get that far.
ApplyFromSdcardStart ==
  /\ last.op = "none"
  /\ install.at = "idle"
  /\ \E mounted \in BOOLEAN, dir \in Directories, n \in 1..MaxKeys,
        child \in {"running", "none"} :
       \E keys \in [1..n ->
                     {[key |-> k, index |-> 0] :
                        k \in {"INTERRUPTED", "kGoHome", "kGoBack"}}
                     \cup {[key |-> "item", index |-> c] :
                             c \in 0..MaxEntries}] :
         LET b == BrowseDirectory(<< "/", "s", "d", "c", "a", "r", "d" >>,
                                  dir, keys)
             done(ended, unmounted) ==
               [op |-> "ApplyFromSdcard", at |-> "returned",
                mounted |-> mounted, ended |-> ended, path |-> << >>,
                bcb |-> FALSE, forked |-> FALSE, unmounted |-> unmounted,
                result |-> "INSTALL_ERROR"]
         IN  IF ~mounted
             THEN last' = done("", FALSE) /\ install' = install
             ELSE /\ b.valid
                  /\ IF b.path = << >>
                     THEN last' = done(b.ended, TRUE) /\ install' = install
                     ELSE /\ last' =
                               [op |-> "ApplyFromSdcard", at |-> "installing",
                                mounted |-> TRUE, ended |-> b.ended,
                                path |-> IF EndsWithIgnoreCase(b.path,
                                              << ".", "m", "a", "p" >>)
                                         THEN << "@" >> \o b.path
                                         ELSE b.path,
                                bcb |-> TRUE, forked |-> TRUE,
                                unmounted |-> FALSE, result |-> ""]
                          /\ install' = [install EXCEPT
                                           !.at = "poll", !.child = child,
                                           !.result = "INSTALL_ERROR"]
  /\ UNCHANGED Display

\* ApplyFromSdcard once InstallWithFuseFromPath has returned: it unmounts
\* the sdcard and returns the result.
ApplyFromSdcardEnd ==
  /\ last.op = "ApplyFromSdcard"
  /\ last.at = "installing"
  /\ install.at = "returned"
  /\ last' = [last EXCEPT !.at = "returned", !.unmounted = TRUE,
                          !.result = install.result]
  /\ UNCHANGED << Display, install >>

\* The steps of InstallWithFuseFromPath itself.
InstallStep == Fork \/ Poll \/ Stat \/ Sleep \/ AfterLoop \/ Wait \/ Return

\* Browsing a directory, and installing a package through the fuse child.
NextFuse ==
  \/ BrowseDirectoryCall
  \/ ApplyFromSdcardStart \/ ApplyFromSdcardEnd
  \/ Fork \/ Poll \/ Stat \/ Sleep \/ AfterLoop \/ Wait \/ Return
  \/ ChildReady \/ ChildExits \/ ChildShutsDown

SpecFuse == Init /\ [][NextFuse]_vars

\* The function takes its steps, and a child that is asked to shut down
\* does.
SpecFuseLive ==
  SpecFuse /\ WF_vars(InstallStep) /\ WF_vars(ChildShutsDown)

\* =================================================================== claims
\* The surface with number sid among the two of the backend.
SurfaceOf(sid) ==
  IF GRSurfaceDrms[1].sid = sid THEN GRSurfaceDrms[1] ELSE GRSurfaceDrms[2]

\* The surface the caller holds for drawing is on screen.
HeldIsShown == SurfaceOf(ret).fb_id \in Shown(Now)

\* The values a request writes to property name of object obj.
Written(writes, obj, name) ==
  {writes[j].val : j \in {j \in 1..Len(writes) :
     writes[j].obj = obj /\ KernelPropName(writes[j].prop_id) = name}}

\* The last call was a Blank(false), Init's included, that built its request
\* and committed it.
EnableCommitted ==
  /\ last.commits = 1
  /\ \/ last.op = "Init" /\ last.init.unblank
     \/ last.op = "Blank" /\ ~last.blank

\* The screen columns the last request gives plane i.
Columns(i) ==
  UNION {{x + d : d \in 0..(w - 1)} :
           x \in Written(last.writes, PlaneIdOf(i), "CRTC_X"),
           w \in Written(last.writes, PlaneIdOf(i), "CRTC_W")}

\* The last request gives plane i the rectangle at offset x of width w and
\* the full height, in source and destination.
PlaneRect(i, x, w) ==
  LET val(name) == Written(last.writes, PlaneIdOf(i), name)
      h == main_monitor_crtc.vdisplay
  IN  /\ val("CRTC_X") = {x} /\ val("SRC_X") = {Shl16(x)}
      /\ val("CRTC_W") = {w} /\ val("SRC_W") = {Shl16(w)}
      /\ val("CRTC_Y") = {0} /\ val("SRC_Y") = {0}
      /\ val("CRTC_H") = {h} /\ val("SRC_H") = {Shl16(h)}

\* C1: after a successful Init the surfaces returned alternate between the
\* two surfaces created at Init: Init returns surface 0 and the n-th Flip
\* returns surface n mod 2, whatever Blank calls and commit outcomes come
\* in between; no third surface is returned.
FlipAlternates ==
  pc = "ready" =>
    /\ GRSurfaceDrms[1].sid = 1 /\ GRSurfaceDrms[2].sid = 2
    /\ ret = GRSurfaceDrms[(nflips % 2) + 1].sid
    /\ current_buffer = nflips % 2

\* C1 witness: the third Flip has returned surface 1.
FlipAlternatesWitness ==
  pc = "ready" /\ nflips = 3 /\ last.op = "Flip" /\ ret = GRSurfaceDrms[2].sid

\* C2: the surface a Flip returns is never the surface the display is
\* showing, whether the commit inside Flip succeeded or failed.
FlipReturnsHidden ==
  (pc = "ready" /\ last.op = "Flip" /\ last.commits = 1) => ~HeldIsShown

\* C3: a Blank(x) called in the opposite state whose commit fails leaves the
\* tracked state unchanged, commits at most once, and leaves a later
\* Blank(x) a call that is not skipped; the tracked state becomes x only
\* when the commit of the call succeeded.
BlankFailureKeepsState ==
  (last.op = "Blank" /\ last.blank # last.was_blank) =>
    /\ last.commits <= 1
    /\ ~last.ok => /\ current_blank_state = last.was_blank
                   /\ ~BlankSkips(Now, last.blank)
    /\ current_blank_state = last.blank => last.ok /\ last.commits = 1

\* C3 witness: a Blank(true) in the Active state whose one commit failed.
BlankFailureWitness ==
  /\ pc = "ready" /\ last.op = "Blank" /\ last.blank /\ ~last.was_blank
  /\ last.commits = 1 /\ ~last.ok

\* C4: a Blank(x) called when the tracked state is x allocates no request,
\* commits nothing, makes no kernel call and changes nothing of the backend
\* or the kernel.
BlankIdempotent ==
  [][(last'.op = "Blank" /\ last'.blank = current_blank_state) =>
       /\ last'.allocs = 0 /\ last'.commits = 0
       /\ kernel' = [kernel EXCEPT !.log = << >>]
       /\ UNCHANGED << pc, current_blank_state, current_buffer, GRSurfaceDrms,
                       drm_fd, main_monitor_crtc, main_monitor_connector,
                       number_of_lms, fb_prop_id, crtc_res, conn_res,
                       plane_res, ret >>]_vars

\* C4 witness: a Blank(false) was called in the Active state.
BlankIdempotentWitness ==
  /\ pc = "ready" /\ last.op = "Blank" /\ ~last.blank /\ ~last.was_blank
  /\ current_blank_state = FALSE /\ last.allocs = 0

\* C5: Init on a Blanked backend returns a surface only if every step
\* succeeded, the enable commit included, and the tracked state is Active
\* only then.
InitAllOrNothing ==
  (last.op = "Init" /\ last.was_blank) =>
    /\ ret # 0 => last.init.unblank /\ last.ok
    /\ ~last.ok => ret = 0 /\ current_blank_state

\* C6: after Init succeeds, the request DisableNonMainCrtcs committed holds
\* an ACTIVE=0 write for every non-main CRTC and none for the main CRTC.
NonMainCrtcsDisabled ==
  (last.op = "Init" /\ ret # 0) =>
    /\ last.init.dis.commits = 1
    /\ \A c \in last.init.nonmain :
         0 \in Written(last.init.dis.writes, c, "ACTIVE")
    /\ Written(last.init.dis.writes, main_monitor_crtc.crtc_id, "ACTIVE") = {}

\* How many times x occurs in the sequence q.
Count(q, x) == Cardinality({j \in 1..Len(q) : q[j] = x})

\* C7: after Init, whatever its outcome, and the destructor, every fd that
\* was opened has been closed exactly once and every surface created has
\* been destroyed exactly once.
ReleasedExactlyOnce ==
  pc = "dead" =>
    /\ \A fd \in kernel.opened : Count(kernel.closes, fd) = 1
    /\ \A sid \in kernel.created : Count(kernel.deleted, sid) = 1

\* C8 (as amended): an enable request gives plane i of N the offset
\* i * (W div N) and the width W div N at full height; the N rectangles do
\* not overlap and cover exactly [0, N * (W div N)), which is [0, W) if and
\* only if N divides W.
PlanesPartition ==
  EnableCommitted =>
    LET W == main_monitor_crtc.hdisplay
        N == number_of_lms
        covered == UNION {Columns(i) : i \in 0..(N - 1)}
    IN  /\ \A i \in 0..(N - 1) : PlaneRect(i, i * (W \div N), W \div N)
        /\ \A i, j \in 0..(N - 1) : i # j => Columns(i) \cap Columns(j) = {}
        /\ covered = 0..(N * (W \div N) - 1)
        /\ covered = 0..(W - 1) <=> W % N = 0

\* C8 witness: an enable request for two planes on a mode of odd width.
PlanesPartitionWitness ==
  /\ EnableCommitted /\ last.ok
  /\ number_of_lms = 2 /\ main_monitor_crtc.hdisplay = 3

\* C8 (as stated): the N rectangles cover [0, W) exactly, with no gap and no
\* overlap, for every W and N.
PlanesCoverWidth ==
  EnableCommitted =>
    LET W == main_monitor_crtc.hdisplay
        N == number_of_lms
    IN  /\ \A i \in 0..(N - 1) : PlaneRect(i, i * (W \div N), W \div N)
        /\ \A i, j \in 0..(N - 1) : i # j => Columns(i) \cap Columns(j) = {}
        /\ UNION {Columns(i) : i \in 0..(N - 1)} = 0..(W - 1)

\* C9: the backend is Blanked before Init, so the Blank(false) that ends
\* Init is not skipped: an Init that reaches it and gets its request
\* allocated and built commits it once, and the tracked state is Active
\* afterwards exactly when that commit succeeded.
InitUnblankNotSkipped ==
  (last.op = "Init" /\ last.init.unblank) =>
    /\ last.was_blank
    /\ current_blank_state = FALSE <=> last.ok

\* C10: while the pipeline is Active after a successful Init, at most one
\* surface is shown and it is not the one the caller holds.
ShownIsNotHeld ==
  (pc = "ready" /\ current_blank_state = FALSE) =>
    /\ Cardinality(Shown(Now)) <= 1
    /\ ~HeldIsShown

\* The kernel calls DrmDestroySurface makes for a surface that
\* DrmCreateSurface returned.
ReleasesOf(surface) ==
  << <<"munmap", Mapping(surface.sid, surface.height * surface.row_bytes)>>,
     <<"rmfb", surface.fb_id>>,
     <<"gem_close", surface.handle>> >>

\* What the kernel still holds of a surface.
HeldOf(k, surface) ==
  [handles |-> k.handles \cap {surface.handle},
   fbs |-> k.fbs \cap {surface.fb_id},
   maps |-> {m \in k.maps : m.sid = surface.sid}]

\* C11: DrmDestroySurface of a surface that DrmCreateSurface returned
\* issues exactly one munmap of height * row_bytes bytes, one framebuffer
\* removal and one handle close, also when one of them fails, and when none
\* fails the kernel holds no handle, framebuffer or mapping of the surface;
\* on a null surface it issues no kernel call.
DestroySurfaceReleasesAll ==
  last.op = "DrmDestroySurface" =>
    IF last.surface = NullSurface
    THEN kernel.log = << >>
    ELSE /\ kernel.log = ReleasesOf(last.surface)
         /\ Count(kernel.deleted, last.surface.sid) = 1
         /\ last.relfail = "none" =>
              HeldOf(kernel, last.surface) =
                [handles |-> {}, fbs |-> {}, maps |-> {}]

\* C11 witness: a created surface is destroyed, its framebuffer removal
\* fails and the handle is closed all the same.
DestroySurfaceWitness ==
  /\ last.op = "DrmDestroySurface"
  /\ last.surface # NullSurface
  /\ last.relfail = "rmfb"
  /\ last.surface.handle \notin kernel.handles
  /\ last.surface.fb_id \in kernel.fbs

\* The kinds of the kernel calls of the last call, in order.
LogKinds == [j \in 1..Len(kernel.log) |-> kernel.log[j][1]]

\* The releases owed when DrmCreateSurface fails at a step: those of what
\* was acquired before it.
OwedAt(step) ==
  CASE step = "create_dumb" -> << >>
    [] step = "add_fb" -> << "gem_close" >>
    [] OTHER -> << "rmfb", "gem_close" >>

\* C19: a DrmCreateSurface that fails at dumb-buffer creation, framebuffer
\* creation, the map-offset query or mmap returns null, having issued the
\* releases of exactly what it had acquired (framebuffer, handle) and no
\* release of a sub-resource it never acquired.
CreateFailureReleasesAcquired ==
  (last.op = "DrmCreateSurface" /\ last.step # "ok") =>
    /\ last.surface = NullSurface
    /\ LogKinds = OwedAt(last.step)

\* The kernel calls of the destructor after its Blank(true), on fd.
DestructorTail(fd) ==
  << <<"blob", crtc_res.mode_blob_id>> >>
    \o ReleasesOf(GRSurfaceDrms[1]) \o ReleasesOf(GRSurfaceDrms[2])
    \o << <<"close", fd>> >>

\* C12: the destructor of a backend whose Init succeeded issues the
\* teardown commit of Blank(true), if any, first, then destroys the mode
\* blob, then releases surface 0, then surface 1, then closes the fd; the
\* close is its last kernel call.
DestructorInOrder ==
  (pc = "dead" /\ ret # 0) =>
    LET n == Len(kernel.log)
        fd == kernel.closes[Len(kernel.closes)]
    IN  /\ n = last.commits + 8
        /\ last.commits = 1 => kernel.log[1][1] = "commit"
        /\ SubSeq(kernel.log, n - 7, n) = DestructorTail(fd)
        /\ fd \in kernel.opened
        /\ Count(LogKinds, "close") = 1

\* C12 witness: a backend that was showing is destroyed, and the teardown
\* commit precedes the releases and the close.
DestructorInOrderWitness ==
  /\ pc = "dead"
  /\ ret # 0
  /\ last.was_blank = FALSE
  /\ Len(kernel.log) = 9
  /\ kernel.log[1] = <<"commit", 0>>
  /\ kernel.log[9][1] = "close"

\* A node that opens, has dumb buffers and has a connected connector with
\* a mode.
Usable(node) ==
  /\ node.kind = "dev"
  /\ \E j \in 1..Len(node.conns) :
       node.conns[j].connected /\ Len(node.conns[j].modes) > 0

\* The opens and closes of a scan of nodes i..upto in minor order that
\* closes every node it opens except a usable one.
RECURSIVE ScanLog(_, _, _)
ScanLog(nodes, i, upto) ==
  IF i > upto
  THEN << >>
  ELSE (CASE nodes[i].kind = "noopen" -> << >>
          [] Usable(nodes[i]) -> << <<"open", FdOf(i - 1)>> >>
          [] OTHER -> << <<"open", FdOf(i - 1)>>, <<"close", FdOf(i - 1)>> >>)
       \o ScanLog(nodes, i + 1, upto)

InUse(c) == c.connected /\ Len(c.modes) > 0

\* The first connector in use of a type among types, 0 when there is none.
FirstInUse(conns, types) ==
  LET hit == {i \in 1..Len(conns) :
                InUse(conns[i]) /\ conns[i].connector_type \in types}
  IN  IF hit = {} THEN 0 ELSE SetMin(hit)

\* C14: FindMainMonitor returns the first connector in use of type LVDS
\* if there is one, else of type eDP, else of type DSI, else of any type,
\* and none only when no connector is in use.
MainMonitorByPriority ==
  last.op = "FindMainMonitor" =>
    LET conns == last.conns
        any == {conns[i].connector_type : i \in 1..Len(conns)}
        expected ==
          CASE FirstInUse(conns, {"LVDS"}) # 0 -> FirstInUse(conns, {"LVDS"})
            [] FirstInUse(conns, {"eDP"}) # 0 -> FirstInUse(conns, {"eDP"})
            [] FirstInUse(conns, {"DSI"}) # 0 -> FirstInUse(conns, {"DSI"})
            [] OTHER -> FirstInUse(conns, any)
    IN  /\ last.result.connector = expected
        /\ last.result.connector = 0 <=>
             \A i \in 1..Len(conns) : ~InUse(conns[i])

\* C14 witness: an LVDS panel listed after a DSI panel is the main
\* monitor.
MainMonitorByPriorityWitness ==
  /\ last.op = "FindMainMonitor"
  /\ Len(last.conns) = 2
  /\ InUse(last.conns[1]) /\ last.conns[1].connector_type = "DSI"
  /\ InUse(last.conns[2]) /\ last.conns[2].connector_type = "LVDS"
  /\ last.result.connector = 2

\* C16: get_lm_number gives 1 for the single-pipe and pixel-split
\* topology names, 2 for every dual-pipe and merge topology name, and 2
\* for the empty string and for any other string; it never gives anything
\* but 1 or 2.
LmNumberOneOrTwo ==
  last.op = "get_lm_number" =>
    /\ last.result \in {1, 2}
    /\ last.result = 1 <=>
         last.topology \in {Chars("sde_singlepipe"),
                            Chars("sde_singlepipe_dsc"), Chars("sde_ppsplit")}

\* C16 witness: the pixel-split topology has one layer mixer.
LmNumberWitness ==
  /\ last.op = "get_lm_number"
  /\ last.topology = Chars("sde_ppsplit")
  /\ last.result = 1

\* The line has the key "topology": it is topology=<value>.
HasTopologyKey(line) ==
  /\ Len(line) >= Len(Chars("topology="))
  /\ SubSeq(line, 1, Len(Chars("topology="))) = Chars("topology=")

\* C17: on a text in which exactly one line has the key "topology",
\* get_topology_lm_number returns the layer-mixer count of that line's
\* value, whatever the other lines are and wherever the line is; on a text
\* with no such line and on a blob that cannot be read it returns 2.
TopologyLineDecides ==
  last.op = "get_topology_lm_number" =>
    LET keyed == {i \in 1..Len(last.lines) : HasTopologyKey(last.lines[i])}
        line == last.lines[CHOOSE i \in keyed : TRUE]
    IN  /\ (~last.readable \/ keyed = {}) => last.result = 2
        /\ (last.readable /\ Cardinality(keyed) = 1) =>
             last.result =
               get_lm_number(SubSeq(line, Len(Chars("topology=")) + 1,
                                    Len(line)))

\* The mode of connector c the specification selects: the first one
\* flagged preferred, the first one when none is flagged.
SelectedMode(c) ==
  LET pref == {m \in 1..Len(c.modes) : c.modes[m].preferred}
  IN  c.modes[IF pref = {} THEN 1 ELSE SetMin(pref)]

\* The main connector among the connectors of the device Init selected.
MainConnector ==
  LET conns == kernel.nodes[drm_fd - FdOf(0) + 1].conns
  IN  conns[CHOOSE i \in 1..Len(conns) :
              conns[i].connector_id = main_monitor_connector]

\* C15: once Init has its main connector and CRTC, the mode it gives the
\* CRTC is the connector's first preferred mode, or its first mode when
\* none is preferred, every surface it created has that mode's width and
\* height, and an Init that succeeds has created both.
InitUsesSelectedMode ==
  (last.op = "Init"
     /\ last.init.step \notin {"device", "connector", "crtc", "disable"}) =>
    LET mode == SelectedMode(MainConnector)
    IN  /\ main_monitor_crtc.hdisplay = mode.hdisplay
        /\ main_monitor_crtc.vdisplay = mode.vdisplay
        /\ \A i \in 1..2 :
             \/ GRSurfaceDrms[i] = NullSurface /\ ret = 0
             \/ /\ GRSurfaceDrms[i].width = mode.hdisplay
                /\ GRSurfaceDrms[i].height = mode.vdisplay

\* C15 witness: Init succeeds on a panel whose second mode is the first
\* preferred one of three, and both surfaces have its size.
InitUsesSelectedModeWitness ==
  /\ last.op = "Init"
  /\ ret # 0
  /\ Len(MainConnector.modes) = 3
  /\ ~MainConnector.modes[1].preferred
  /\ MainConnector.modes[2].preferred
  /\ GRSurfaceDrms[1].width = MainConnector.modes[2].hdisplay
  /\ GRSurfaceDrms[2].width = MainConnector.modes[2].hdisplay
  /\ GRSurfaceDrms[1].width # MainConnector.modes[1].hdisplay

\* The properties the request of Blank(blank) needs: on the connector, on
\* the CRTC, and on every plane in use.
Needed(blank) ==
  {<< main_monitor_connector, "CRTC_ID" >>,
   << main_monitor_crtc.crtc_id, "MODE_ID" >>,
   << main_monitor_crtc.crtc_id, "ACTIVE" >>} \cup
  {<< PlaneIdOf(i), name >> :
     i \in 0..(number_of_lms - 1),
     name \in IF blank THEN {"CRTC_ID", "FB_ID"}
              ELSE {PlanePropsFull[j].name : j \in 1..Len(PlanePropsFull)}}

\* C18: when the request a Blank call builds lacks a property it needs,
\* because the property was not found or the add was rejected, no commit is
\* issued for it, the request is freed and the tracked blank state is
\* unchanged.
BuildFailureAborts ==
  (last.op = "Blank" /\ pc # "crashed" /\ last.allocs = 1
     /\ \E need \in Needed(last.blank) :
          Written(last.writes, need[1], need[2]) = {}) =>
    /\ last.commits = 0
    /\ last.frees = 1
    /\ current_blank_state = last.was_blank

\* C20: the request a Flip commits has exactly one entry for each plane in
\* use, setting the plane's framebuffer-id property to the fb id of the
\* surface that was current when Flip was called, and no other entry; the
\* tracked blank state is what it was.
FlipRequestShape ==
  (last.op = "Flip" /\ last.commits = 1) =>
    LET was_current == GRSurfaceDrms[(1 - current_buffer) + 1]
        entries(i) == {j \in 1..Len(last.writes) :
                        last.writes[j].obj = plane_res[i].plane_id}
    IN  /\ Len(last.writes) = number_of_lms
        /\ \A i \in 1..number_of_lms :
             /\ Cardinality(entries(i)) = 1
             /\ Written(last.writes, plane_res[i].plane_id, "FB_ID") =
                  {was_current.fb_id}
        /\ current_blank_state = last.was_blank

\* C21: a Flip called while the tracked pipeline state is Blanked issues
\* no atomic commit.
FlipCommitsOnlyActive ==
  (last.op = "Flip" /\ last.was_blank) => last.commits = 0

\* The last request gives plane_res[i] the current surface, the main CRTC
\* and full-height rectangles, the source one in 16.16 fixed point.
PlaneEnabled(i) ==
  LET val(name) == Written(last.writes, plane_res[i].plane_id, name)
      h == main_monitor_crtc.vdisplay
  IN  /\ val("FB_ID") = {GRSurfaceDrms[current_buffer + 1].fb_id}
      /\ val("CRTC_ID") = {main_monitor_crtc.crtc_id}
      /\ val("SRC_Y") = {0} /\ val("SRC_H") = {Shl16(h)}
      /\ val("CRTC_Y") = {0} /\ val("CRTC_H") = {h}
      /\ Cardinality(val("CRTC_X")) = 1 /\ Cardinality(val("CRTC_W")) = 1
      /\ val("SRC_X") = {Shl16(x) : x \in val("CRTC_X")}
      /\ val("SRC_W") = {Shl16(w) : w \in val("CRTC_W")}

\* C22: the request that a Blanked-to-Active transition commits with
\* success sets the connector's CRTC_ID to the main CRTC, the CRTC's
\* MODE_ID to the mode blob and its ACTIVE to 1, and gives every plane in
\* use the current surface, the main CRTC and full-height source (16.16)
\* and destination rectangles.
EnableRequestComplete ==
  (EnableCommitted /\ last.ok) =>
    /\ Written(last.writes, main_monitor_connector, "CRTC_ID") =
         {main_monitor_crtc.crtc_id}
    /\ Written(last.writes, main_monitor_crtc.crtc_id, "MODE_ID") =
         {crtc_res.mode_blob_id}
    /\ Written(last.writes, main_monitor_crtc.crtc_id, "ACTIVE") = {1}
    /\ \A i \in 1..number_of_lms : PlaneEnabled(i)

\* The property writes of a complete teardown request, as a set.
TeardownWrites ==
  {[obj |-> main_monitor_connector, name |-> "CRTC_ID", val |-> 0],
   [obj |-> main_monitor_crtc.crtc_id, name |-> "MODE_ID", val |-> 0],
   [obj |-> main_monitor_crtc.crtc_id, name |-> "ACTIVE", val |-> 0]} \cup
  {[obj |-> plane_res[i].plane_id, name |-> n, val |-> 0] :
     i \in 1..number_of_lms, n \in {"CRTC_ID", "FB_ID"}}

\* C23: the request that an Active-to-Blanked transition commits with
\* success sets the connector's CRTC_ID, the CRTC's MODE_ID and ACTIVE, and
\* every plane's CRTC_ID and FB_ID to 0, one write each, and nothing else.
TeardownRequestComplete ==
  (last.op \in {"Blank", "Destroy"} /\ last.blank /\ last.commits = 1
     /\ last.ok) =>
    /\ {[obj |-> last.writes[j].obj,
         name |-> KernelPropName(last.writes[j].prop_id),
         val |-> last.writes[j].val] : j \in 1..Len(last.writes)}
         = TeardownWrites
    /\ Len(last.writes) = Cardinality(TeardownWrites)

\* The CRTCs of the list that encoder e can drive, by index (0-based).
Drives(e) ==
  IF ~e.found THEN {}
  ELSE {j \in 0..(Len(ResCrtcs) - 1) : (e.possible_crtcs \div (2 ^ j)) % 2 = 1}

FirstNamed(props_info, name) ==
  IF \A j \in 1..Len(props_info) : props_info[j].name # name
  THEN 0
  ELSE props_info[CHOOSE j \in 1..Len(props_info) :
                    /\ props_info[j].name = name
                    /\ \A k \in 1..(j - 1) : props_info[k].name # name].prop_id

\* C25: a property lookup for an active plane returns the id of the first
\* cached property with exactly the requested name, and 0 when the plane
\* has no cached property of that name: the lookup of "FB_ID" on plane 0
\* that Init makes once the mode blob exists returns, and fb_prop_id is
\* that id or 0.
PropertyLookupReturns ==
  (last.op = "Init" /\ last.init.step \in {"none", "fb_prop_id"}) =>
    /\ last.init.step = "none"
    /\ fb_prop_id = FirstNamed(plane_res[1].props_info, "FB_ID")

\* C28: the destructor is safe after every outcome of Init and on a
\* backend Init was never called on: it runs to its end without reading a
\* connector, CRTC or plane that Init did not resolve, and every mode blob
\* it destroys is one that was created.
DestructorSafe ==
  last.op = "Destroy" =>
    /\ pc = "dead"
    /\ \A j \in 1..Len(kernel.log) :
         kernel.log[j][1] = "blob" => kernel.log[j][2] \in BlobIds

\* C29: every atomic request that Blank, UpdatePlaneFB or
\* DisableNonMainCrtcs allocates is freed exactly once before the operation
\* returns, whatever the outcome of the construction and of the commit.
RequestsFreedOnce ==
  pc # "crashed" =>
    /\ last.op \in {"Blank", "Flip", "Destroy"} => last.frees = last.allocs
    /\ (last.op = "Init"
          /\ last.init.step \notin {"device", "connector", "crtc"}) =>
         /\ last.init.dis.frees = last.init.dis.allocs
         /\ last.init.unblank => last.frees = last.allocs

\* What InstallWithFuseFromPath has done so far is within the limits: at
\* most SDCARD_INSTALL_TIMEOUT polls, a sleep before every poll but the
\* first, at most one InstallPackage and no poll after it; and when it has
\* returned without installing, the result is INSTALL_ERROR, with the child
\* killed once when the last poll was made.
PollsWithinLimits ==
  /\ install.polls <= SDCARD_INSTALL_TIMEOUT
  /\ install.sleeps = install.i
  /\ install.polls \in {install.sleeps, install.sleeps + 1}
  /\ install.installs <= 1
  /\ install.installs = 1 => install.at \notin {"poll", "stat", "sleep"}
  /\ install.at = "returned" =>
       /\ install.installs = 0 => install.result = "INSTALL_ERROR"
       /\ (install.installs = 0 /\ install.polls = SDCARD_INSTALL_TIMEOUT) =>
            install.kills = 1

\* C26: InstallWithFuseFromPath polls for the package file at most
\* SDCARD_INSTALL_TIMEOUT times with a sleep between polls; when the file
\* has not appeared by the last poll it kills the child and returns
\* INSTALL_ERROR without calling InstallPackage; when the file is seen it
\* calls InstallPackage once and polls no more; and it always returns.
InstallPollsAndReturns ==
  /\ []PollsWithinLimits
  /\ (install.at = "poll") ~> (install.at = "returned")

\* C26 witness: the file never appeared; the function has returned
\* INSTALL_ERROR after its tenth poll, nine sleeps and one kill.
InstallTimedOut ==
  /\ install.at = "returned"
  /\ install.polls = SDCARD_INSTALL_TIMEOUT
  /\ install.sleeps = SDCARD_INSTALL_TIMEOUT - 1
  /\ install.kills = 1 /\ install.installs = 0
  /\ install.result = "INSTALL_ERROR"

\* Entry j of the menu is a subdirectory.
IsDir(j) == last.entries[j][Len(last.entries[j])] = "/"

\* C27: the menu of BrowseDirectory has "../" at index 0 whatever the
\* directory holds; the packages follow it in sorted order and the
\* subdirectories come after them in sorted order.
MenuUpFirst ==
  last.op = "BrowseDirectory" =>
    LET n == Len(last.entries)
    IN  /\ last.entries[1] = Up
        /\ \A j \in 2..(n - 1) :
             /\ IsDir(j) => IsDir(j + 1)
             /\ IsDir(j) = IsDir(j + 1) =>
                  less(last.entries[j], last.entries[j + 1])

\* C30: when InstallWithFuseFromPath has returned, the fuse child has
\* terminated and has been reaped, and the status it inspected was written
\* by a waitpid that succeeded.
ChildReapedOnReturn ==
  install.at = "returned" =>
    /\ install.child = "reaped"
    /\ install.inspected \in {"EXIT_SUCCESS", "EXIT_FAILURE", "SIGKILL"}

\* C31: ApplyFromSdcard writes the bootloader message and forks the fuse
\* child only when the user selected a package file; when the mount fails
\* or the browsing ends by interruption, go-back or go-home it returns
\* INSTALL_ERROR without doing either; and when the mount succeeded the
\* sdcard has been unmounted when it returns.
ApplyInstallsOnlyPackage ==
  last.op = "ApplyFromSdcard" =>
    /\ (last.bcb \/ last.forked) => last.ended = "package"
    /\ (~last.mounted
          \/ last.ended \in {"INTERRUPTED", "kGoBack", "kGoHome"}) =>
         /\ ~last.bcb /\ ~last.forked
         /\ last.at = "returned" /\ last.result = "INSTALL_ERROR"
    /\ (last.at = "returned" /\ last.mounted) => last.unmounted

====
